---- MODULE Spec2Model ----
(***************************************************************************)
(* Model of the antenna-array engines of backend/linear_array.py and       *)
(* backend/planar_array.py, and of the array cache and the two analyze     *)
(* routes of backend/app.py.                                               *)
(*                                                                         *)
(* Numbers.  Angles (degrees) and gains (dB) are integers counting steps   *)
(* of 1/50 (0.02 deg, 0.02 dB): 3 dB is 150, 90 deg is 4500.  With that    *)
(* step the one-decimal rounding of the planar engine (a multiple of 5) is *)
(* not the identity and never meets a tie.  Indices are 0-based as in the  *)
(* source; TLA+ sequences are 1-based, so s[i+1] is the source's s[i].     *)
(***************************************************************************)
EXTENDS Integers, Sequences, FiniteSets, TLC

\* The names the records of this model use, each with what it names in the
\* source: an attribute of the object, a local or an argument of a method or
\* of a numpy/scipy call, a field of the result, or a field the model adds
\* (the call made, the exception raised, a Python type).  TLC keeps the
\* fields of a record in the order in which their names first occur as
\* fields, which this record fixes; every record below lists its fields in
\* this order.
Attributes ==
    [AF |-> "attribute", G |-> "local", Gain |-> "result", HPBW |-> "result",
     I |-> "attribute", Icol |-> "attribute", Irow |-> "attribute",
     M |-> "argument", P |-> "attribute", Pcol |-> "attribute",
     Peak_Angle |-> "result", Prow |-> "attribute", SLL |-> "attribute",
     X |-> "attribute", X_ndim |-> "attribute", Y |-> "attribute",
     arr |-> "argument", array_cache |-> "global", array_shape |-> "argument",
     array_type |-> "argument", at |-> "model", attrs |-> "model",
     body |-> "result", cls |-> "model", cut_angle |-> "argument",
     data |-> "local", element_gain |-> "attribute",
     element_pattern |-> "attribute", element_spacing |-> "attribute",
     envelopes |-> "attribute", evicted |-> "local", gain |-> "result",
     gain_3d |-> "result", heap |-> "model", hpbw |-> "result",
     hpbw_ok |-> "model", idx_3dB_L |-> "local", idx_3dB_R |-> "local",
     idx_m90 |-> "local", idx_null_L |-> "local", idx_null_R |-> "local",
     idx_p90 |-> "local", idx_peak |-> "local", idx_phi_cut1 |-> "local",
     idx_phi_cut2 |-> "local", key |-> "argument", kw |-> "argument",
     nbar |-> "argument", num |-> "argument", num_elem |-> "attribute",
     o |-> "model", of |-> "model", ok |-> "model", op |-> "model",
     pattern_params |-> "attribute", pc |-> "model", peak |-> "local",
     peak_angle |-> "result", phi |-> "attribute", plot_type |-> "argument",
     r |-> "model", raised |-> "model", req |-> "model", route |-> "model",
     rows |-> "local", scan_angle |-> "attribute", scan_range |-> "attribute",
     shape |-> "attribute", sll |-> "result", sll_ok |-> "model",
     start |-> "argument", status |-> "result", stop |-> "argument",
     t |-> "model", theta |-> "attribute", theta_cut |-> "local",
     theta_deg |-> "local", type |-> "model", used |-> "model", v |-> "model",
     window |-> "attribute"]

VARIABLES
    obj,    \* the array object: a LinearArray or a PlanarArray (a record)
    last    \* the last call made on it and how it ended

vars == <<obj, last>>

(***************************************************************************)
(* Units                                                                   *)
(***************************************************************************)
Deg(x) == 50 * x
DB(x) == 50 * x

(***************************************************************************)
(* numpy primitives used by the engines                                    *)
(***************************************************************************)
Abs(x) == IF x < 0 THEN -x ELSE x

np_sign(x) == IF x > 0 THEN 1 ELSE IF x < 0 THEN -1 ELSE 0

\* s[a:b] for 0 <= a, 0 <= b: empty when a >= b, cut at the end of s
Slice(s, a, b) ==
    LET hi == IF b > Len(s) THEN Len(s) ELSE b
    IN  IF a >= hi THEN << >> ELSE SubSeq(s, a + 1, hi)

\* s[i] with Python's negative indices; callers test InRange first
InRange(s, i) == (-Len(s) <= i) /\ (i < Len(s))

PyAt(s, i) == IF i < 0 THEN s[Len(s) + i + 1] ELSE s[i + 1]

\* np.max of a non-empty sequence
np_max(s) == CHOOSE m \in {s[i] : i \in 1..Len(s)} : \A i \in 1..Len(s) : s[i] <= m

\* np.argmax / np.argmin: 0-based index of the FIRST maximum / minimum
np_argmax(s) ==
    (CHOOSE i \in 1..Len(s) :
        /\ \A j \in 1..Len(s) : s[j] <= s[i]
        /\ \A j \in 1..(i - 1) : s[j] < s[i]) - 1

np_argmin(s) ==
    (CHOOSE i \in 1..Len(s) :
        /\ \A j \in 1..Len(s) : s[j] >= s[i]
        /\ \A j \in 1..(i - 1) : s[j] > s[i]) - 1

\* np.diff
np_diff(s) == [i \in 1..(Len(s) - 1) |-> s[i + 1] - s[i]]

\* np.flip
np_flip(s) == [i \in 1..Len(s) |-> s[Len(s) + 1 - i]]

\* the 0-based indices at which a sequence holds value v, ascending:
\* np.asarray(s == v).nonzero()[0]
nonzero_eq(s, v) ==
    SelectSeq([i \in 1..Len(s) |-> i - 1], LAMBDA k : s[k + 1] = v)

\* float(f'{x:1.1f}'): round to one decimal, i.e. to the nearest multiple of 5
\* steps of 1/50 (no value k/50 lies half way between two tenths)
Round1(x) == 5 * ((x + 2) \div 5)

(***************************************************************************)
(* Peak / null / HPBW / SLL extraction: the crossing list                  *)
(***************************************************************************)
\* dG = np.sign(np.diff(G))
dG(G) == LET d == np_diff(G) IN [i \in 1..Len(d) |-> np_sign(d[i])]

\* dG_cs = -dG[0:-1] * dG[1:], then a 1 inserted in front and appended
dG_cs(G) ==
    LET d == dG(G)
        inner == [i \in 1..(Len(d) - 1) |-> -(d[i] * d[i + 1])]
    IN  <<1>> \o inner \o <<1>>

\* cs_idx = np.asarray(dG_cs == 1).nonzero()[0]
cs_idx(G) == nonzero_eq(dG_cs(G), 1)

\* |G[a:b] - peak + 3| sample by sample
Dist3dB(G, a, b, peak) ==
    LET s == Slice(G, a, b) IN [i \in 1..Len(s) |-> Abs(s[i] - peak + DB(3))]

(***************************************************************************)
(* The body of calc_peak_sll_hpbw.  Its text is the same in both engines   *)
(* (linear_array.py 123-140, planar_array.py 234-251) but for the two      *)
(* sentinels.  raised names the exception that leaves the call ("none"     *)
(* when it goes on).  The look-ups of lines 129-130 are outside any try;   *)
(* the two bare except: clauses catch whatever the two try blocks raise    *)
(* (np.argmin and np.max of an empty slice raise ValueError).              *)
(***************************************************************************)
Raise(exc, expr) == [at |-> expr, raised |-> exc]

\* lines 129-130: the peak's place in the crossing list and its neighbours
Neighbours(peak, idx_peak, cs) ==
    LET hit == nonzero_eq(cs, idx_peak)
    IN  IF Len(hit) = 0 THEN Raise("IndexError", "nonzero()[0][0]")
        ELSE IF ~InRange(cs, hit[1] - 1) \/ ~InRange(cs, hit[1] + 1)
        THEN Raise("IndexError", "cs_idx[idx_+1]")
        ELSE [idx_null_L |-> PyAt(cs, hit[1] - 1),
              idx_null_R |-> PyAt(cs, hit[1] + 1), idx_peak |-> idx_peak,
              peak |-> peak, raised |-> "none"]

\* lines 123-130
MainLobe(G) == Neighbours(np_max(G), np_argmax(G), cs_idx(G))

\* HalfPower searching for the sample nearest to the peak itself (the "+ 3"
\* of lines 132-133 dropped)
HalfPower_no3dB(G, theta_deg, m, undefined) ==
    LET dR == Dist3dB(G, m.idx_peak, m.idx_null_R, m.peak + DB(3))
        dL == Dist3dB(G, m.idx_null_L, m.idx_peak, m.peak + DB(3))
    IN  IF Len(dR) > 0 /\ Len(dL) > 0
        THEN [HPBW |-> theta_deg[m.idx_peak + np_argmin(dR) + 1]
                       - theta_deg[m.idx_null_L + np_argmin(dL) + 1],
              idx_3dB_L |-> m.idx_null_L + np_argmin(dL),
              idx_3dB_R |-> m.idx_peak + np_argmin(dR), ok |-> TRUE]
        ELSE [HPBW |-> undefined, idx_3dB_L |-> -1, idx_3dB_R |-> -1,
              ok |-> FALSE]

\* HalfPower taking the peak as the left -3 dB sample when nothing lies left
\* of it, instead of giving the search up
HalfPower_edge(G, theta_deg, m, undefined) ==
    LET dR == Dist3dB(G, m.idx_peak, m.idx_null_R, m.peak)
        dL == Dist3dB(G, m.idx_null_L, m.idx_peak, m.peak)
        iL == IF Len(dL) > 0 THEN m.idx_null_L + np_argmin(dL) ELSE m.idx_peak
    IN  IF Len(dR) > 0
        THEN [HPBW |-> theta_deg[m.idx_peak + np_argmin(dR) + 1] - theta_deg[iL + 1],
              idx_3dB_L |-> iL, idx_3dB_R |-> m.idx_peak + np_argmin(dR),
              ok |-> TRUE]
        ELSE [HPBW |-> undefined, idx_3dB_L |-> -1, idx_3dB_R |-> -1,
              ok |-> FALSE]

\* lines 131-136: the first try block; m is MainLobe(G)
HalfPower(G, theta_deg, m, undefined) ==
    LET dR == Dist3dB(G, m.idx_peak, m.idx_null_R, m.peak)
        dL == Dist3dB(G, m.idx_null_L, m.idx_peak, m.peak)
    IN  IF Len(dR) > 0 /\ Len(dL) > 0
        THEN [HPBW |-> theta_deg[m.idx_peak + np_argmin(dR) + 1]
                       - theta_deg[m.idx_null_L + np_argmin(dL) + 1],
              idx_3dB_L |-> m.idx_null_L + np_argmin(dL),
              idx_3dB_R |-> m.idx_peak + np_argmin(dR), ok |-> TRUE]
        ELSE [HPBW |-> undefined, idx_3dB_L |-> -1, idx_3dB_R |-> -1,
              ok |-> FALSE]

\* SideLobe using the side that has samples when the other has none
SideLobe_one_sided(G, m, undefined) ==
    LET lo == Slice(G, 0, m.idx_null_L)
        hi == Slice(G, m.idx_null_R, Len(G))
    IN  IF Len(lo \o hi) > 0
        THEN [SLL |-> m.peak - np_max(lo \o hi), ok |-> TRUE]
        ELSE [SLL |-> undefined, ok |-> FALSE]

\* lines 137-140: the second try block
SideLobe(G, m, undefined) ==
    LET lo == Slice(G, 0, m.idx_null_L)
        hi == Slice(G, m.idx_null_R, Len(G))
    IN  IF Len(lo) > 0 /\ Len(hi) > 0
        THEN [SLL |-> m.peak - np_max(<<np_max(lo), np_max(hi)>>), ok |-> TRUE]
        ELSE [SLL |-> undefined, ok |-> FALSE]

\* the locals a returning call ends with
Locals(G, theta_deg, m, h, sl, params) ==
    [G |-> G, HPBW |-> h.HPBW, SLL |-> sl.SLL, hpbw_ok |-> h.ok,
     idx_3dB_L |-> h.idx_3dB_L, idx_3dB_R |-> h.idx_3dB_R,
     idx_null_L |-> m.idx_null_L, idx_null_R |-> m.idx_null_R,
     idx_peak |-> m.idx_peak, pattern_params |-> params, raised |-> "none",
     sll_ok |-> sl.ok, theta_deg |-> theta_deg]

(***************************************************************************)
(* LinearArray.calc_peak_sll_hpbw: G is db20(self.AF), theta_deg is        *)
(* self.theta; HPBW = 0 and SLL = 100 stand for "undefined".               *)
(***************************************************************************)
LinearParams(theta_deg, m, h, sl) ==
    [Gain |-> m.peak, HPBW |-> h.HPBW,
     Peak_Angle |-> theta_deg[m.idx_peak + 1], SLL |-> sl.SLL]

LinearFinish(G, theta_deg, m, h, sl) ==
    Locals(G, theta_deg, m, h, sl, LinearParams(theta_deg, m, h, sl))

LinearExtract(G, theta_deg, m) ==
    IF m.raised # "none" THEN m
    ELSE LinearFinish(G, theta_deg, m, HalfPower(G, theta_deg, m, 0),
                      SideLobe(G, m, DB(100)))

LinearArray_calc_peak_sll_hpbw(G, theta_deg) ==
    LinearExtract(G, theta_deg, MainLobe(G))

(***************************************************************************)
(* PlanarArray.pattern_cut and PlanarArray.calc_peak_sll_hpbw.  o.G is     *)
(* db20(self.AF): one row per phi grid point, one column per theta grid    *)
(* point.  HPBW = -1 and SLL = -100 stand for "undefined"; the four        *)
(* outputs are rounded to one decimal.                                     *)
(***************************************************************************)
Neg(s) == [i \in 1..Len(s) |-> -s[i]]

AbsDiff(s, v) == [i \in 1..Len(s) |-> Abs(s[i] - v)]

\* lines 219-220: the two phi rows of a cut angle already taken mod 360
PhiRows(phi, cut_angle) ==
    [idx_phi_cut1 |-> np_argmin(AbsDiff(phi, cut_angle)),
     idx_phi_cut2 |-> np_argmin(AbsDiff(phi, (Deg(180) + cut_angle) % Deg(360)))]

\* Splice with the mirrored half not flipped
Splice_no_flip(o, rows) ==
    [G |-> Tail(o.G[rows.idx_phi_cut2 + 1]) \o o.G[rows.idx_phi_cut1 + 1],
     idx_phi_cut1 |-> rows.idx_phi_cut1, idx_phi_cut2 |-> rows.idx_phi_cut2,
     theta_cut |-> Neg(np_flip(Tail(o.theta))) \o o.theta]

\* lines 217-221
Splice(o, rows) ==
    [G |-> np_flip(Tail(o.G[rows.idx_phi_cut2 + 1])) \o o.G[rows.idx_phi_cut1 + 1],
     idx_phi_cut1 |-> rows.idx_phi_cut1, idx_phi_cut2 |-> rows.idx_phi_cut2,
     theta_cut |-> Neg(np_flip(Tail(o.theta))) \o o.theta]

\* pattern_cut without line 216 (cut_angle = cut_angle % 360)
pattern_cut_no_mod(o, cut_angle) == Splice(o, PhiRows(o.phi, cut_angle))

pattern_cut(o, cut_angle) == Splice(o, PhiRows(o.phi, cut_angle % Deg(360)))

\* lines 229-232: the cut reduced to the grid points nearest -90 and +90
Window(c, idx_m90, idx_p90) ==
    [G |-> Slice(c.G, idx_m90, idx_p90 + 1), idx_m90 |-> idx_m90,
     idx_p90 |-> idx_p90,
     theta_deg |-> Slice(c.theta_cut, idx_m90, idx_p90 + 1)]

\* the whole cut, lines 229-232 left out
Reduce90_none(c) == Window(c, 0, Len(c.theta_cut) - 1)

Reduce90(c) ==
    Window(c, np_argmin(AbsDiff(c.theta_cut, Deg(-90))),
              np_argmin(AbsDiff(c.theta_cut, Deg(90))))

PlanarParams(theta_deg, m, h, sl) ==
    [Gain |-> Round1(m.peak), HPBW |-> Round1(h.HPBW),
     Peak_Angle |-> Round1(theta_deg[m.idx_peak + 1]), SLL |-> Round1(sl.SLL)]

PlanarFinish(G, theta_deg, m, h, sl) ==
    Locals(G, theta_deg, m, h, sl, PlanarParams(theta_deg, m, h, sl))

PlanarExtract(G, theta_deg, m) ==
    IF m.raised # "none" THEN m
    ELSE PlanarFinish(G, theta_deg, m, HalfPower(G, theta_deg, m, Deg(-1)),
                      SideLobe(G, m, DB(-100)))

PlanarOnWindow(w) == PlanarExtract(w.G, w.theta_deg, MainLobe(w.G))

PlanarArray_calc_peak_sll_hpbw(o, cut_angle) ==
    PlanarOnWindow(Reduce90(pattern_cut(o, cut_angle)))

(***************************************************************************)
(* Inputs.  The engines take the gain curve from self.AF; the model draws  *)
(* db20(self.AF) from all curves over a few gain levels, on grids a caller *)
(* can supply (theta=..., phi=... of the constructors).                    *)
(***************************************************************************)
MaxLen == 5

\* gain levels (steps of 0.02 dB): 0, 3.04, 6.06 and 9.02 dB
GainVals == {0, 152, 303, 451}

\* the levels of a planar gain surface
PlanarGainVals == {0, 303, 451}

\* np.linspace(a, b, n), n >= 2
linspace(a, b, n) == [i \in 1..n |-> a + ((b - a) * (i - 1)) \div (n - 1)]

LinearObject(n, g) ==
    [G |-> g, cls |-> "LinearArray", pattern_params |-> << >>,
     theta |-> linspace(Deg(-90), Deg(90), n)]

\* phi = 0, 180, 360; theta = 0..180 in n points.  The rows of phi = 0 and
\* phi = 360 are one direction set, and theta = 0 is one direction for
\* every phi (sin(0) = 0 in calc_AF_), so those samples agree.
PlanarNts == {3, 4, 5}

PlanarObject(r0, t) ==
    [G |-> <<r0, <<r0[1]>> \o t, r0>>, cls |-> "PlanarArray",
     pattern_params |-> << >>, phi |-> <<0, Deg(180), Deg(360)>>,
     theta |-> linspace(0, Deg(180), Len(r0))]

PeakCuts == {0, Deg(180)}

(***************************************************************************)
(* Calls.  last records the call and the locals it ended with; an          *)
(* exception leaves the object as it was.                                  *)
(***************************************************************************)
LinearCalcPeak ==
    /\ obj.cls = "LinearArray"
    /\ LET r == LinearArray_calc_peak_sll_hpbw(obj.G, obj.theta)
       IN  /\ last' = [cut_angle |-> 0, op |-> "calc_peak_sll_hpbw", r |-> r]
           /\ obj' = IF r.raised = "none"
                     THEN [obj EXCEPT !.pattern_params = <<r.pattern_params>>]
                     ELSE obj

PlanarCalcPeak(cuts) ==
    /\ obj.cls = "PlanarArray"
    /\ \E cut_angle \in cuts :
          LET r == PlanarArray_calc_peak_sll_hpbw(obj, cut_angle)
          IN  /\ last' = [cut_angle |-> cut_angle, op |-> "calc_peak_sll_hpbw",
                          r |-> r]
              /\ obj' = IF r.raised = "none"
                        THEN [obj EXCEPT !.pattern_params = <<r.pattern_params>>]
                        ELSE obj

NoCall == [op |-> "none"]

InitPeak ==
    /\ \/ \E n \in 3..MaxLen : \E g \in [1..n -> GainVals] :
             obj = LinearObject(n, g)
       \/ \E n \in PlanarNts :
             \E r0 \in [1..n -> PlanarGainVals], t \in [1..(n - 1) -> PlanarGainVals] :
                obj = PlanarObject(r0, t)
    /\ last = NoCall

PlanarCalcPeakOfCut == PlanarCalcPeak(PeakCuts)

NextPeak == LinearCalcPeak \/ PlanarCalcPeakOfCut

SpecPeak == InitPeak /\ [][NextPeak]_vars

(***************************************************************************)
(* Vocabulary of the claims about calc_peak_sll_hpbw                       *)
(***************************************************************************)
Called == last.op = "calc_peak_sll_hpbw"

Returned == Called /\ last.r.raised = "none"

IsLinear == obj.cls = "LinearArray"

\* the curve the call analysed: self.AF over self.theta (linear), the cut
\* between the grid points nearest -90 and +90 (planar)
Analysed ==
    IF IsLinear THEN [G |-> obj.G, theta_deg |-> obj.theta]
    ELSE Reduce90(pattern_cut(obj, last.cut_angle))

\* the "undefined" values of the engine at hand
HPBWUndefined == IF IsLinear THEN 0 ELSE Deg(-1)

SLLUndefined == IF IsLinear THEN DB(100) ELSE DB(-100)

\* what the engine at hand returns for a value v of its locals
Returns(v) == IF IsLinear THEN v ELSE Round1(v)

SetMax(S) == CHOOSE m \in S : \A x \in S : x <= m

\* the first maximum of G is an interior strict local maximum (0-based p)
InteriorStrictPeak(G, p) ==
    /\ 0 < p /\ p < Len(G) - 1
    /\ \A j \in 1..Len(G) : G[j] <= G[p + 1]
    /\ \A j \in 1..p : G[j] < G[p + 1]
    /\ G[p] < G[p + 1] /\ G[p + 2] < G[p + 1]

\* i is the sample nearest to peak - 3 dB among the indices lo..hi-1 (the
\* lowest index among equally near ones)
Nearest3dB(G, peak, lo, hi, i) ==
    /\ lo <= i /\ i < hi
    /\ \A j \in lo..(hi - 1) :
          /\ Abs(G[j + 1] - (peak - DB(3))) >= Abs(G[i + 1] - (peak - DB(3)))
          /\ j < i => Abs(G[j + 1] - (peak - DB(3))) > Abs(G[i + 1] - (peak - DB(3)))

Constant(G) == \A i, j \in 1..Len(G) : G[i] = G[j]

\* one hump: strictly rising to an interior sample, strictly falling after
Hump(G) ==
    \E p \in 2..(Len(G) - 1) :
        /\ \A i \in 1..(p - 1) : G[i] < G[i + 1]
        /\ \A i \in p..(Len(G) - 1) : G[i] > G[i + 1]

(***************************************************************************)
(* C1: for every gain curve of length >= 3 calc_peak_sll_hpbw of either    *)
(* engine returns a {Gain, Peak_Angle, SLL, HPBW} tuple and never raises.  *)
(* The code raises IndexError at line 129/240 for a flat-topped peak and   *)
(* at line 130/241 for a peak at the last sample.                          *)
(***************************************************************************)
C1_NeverRaises == Called => last.r.raised = "none"

(***************************************************************************)
(* C2: SLL is peak minus the maximum over the samples left of idx_null_L   *)
(* or right of idx_null_R whenever such a sample exists on either side,    *)
(* and is the sentinel only when no sample lies outside the bracket.       *)
(* (Stated on the call's local SLL, before the planar rounding.)           *)
(***************************************************************************)
C2_Outside(r) ==
    {r.G[i + 1] : i \in {k \in 0..(Len(r.G) - 1) : k < r.idx_null_L \/ k > r.idx_null_R}}

C2_SLLOverOutside ==
    Returned =>
        /\ C2_Outside(last.r) # {} =>
              last.r.SLL = np_max(last.r.G) - SetMax(C2_Outside(last.r))
        /\ last.r.SLL = SLLUndefined => C2_Outside(last.r) = {}

(***************************************************************************)
(* C3: when the peak is an interior strict local maximum the call returns  *)
(* and HPBW = theta[i_R] - theta[i_L], i_L the sample nearest to           *)
(* peak - 3 dB among idx_null_L..idx_peak-1 and i_R the one nearest among  *)
(* idx_peak..idx_null_R-1, so idx_null_L <= i_L < idx_peak <= i_R <        *)
(* idx_null_R and HPBW > 0.  HPBW is the value the try block of lines      *)
(* 132-134 / 243-245 assigns; the linear engine returns it as it is, the   *)
(* planar engine returns it rounded to one decimal.                        *)
(***************************************************************************)
C3_HPBWBetweenNearest3dB ==
    (Called /\ InteriorStrictPeak(Analysed.G, np_argmax(Analysed.G))) =>
        /\ last.r.raised = "none"
        /\ last.r.hpbw_ok
        /\ last.r.idx_peak = np_argmax(Analysed.G)
        /\ Nearest3dB(Analysed.G, np_max(Analysed.G),
                      last.r.idx_null_L, last.r.idx_peak, last.r.idx_3dB_L)
        /\ Nearest3dB(Analysed.G, np_max(Analysed.G),
                      last.r.idx_peak, last.r.idx_null_R, last.r.idx_3dB_R)
        /\ last.r.idx_null_L <= last.r.idx_3dB_L
        /\ last.r.idx_3dB_L < last.r.idx_peak
        /\ last.r.idx_peak <= last.r.idx_3dB_R
        /\ last.r.idx_3dB_R < last.r.idx_null_R
        /\ last.r.HPBW = Analysed.theta_deg[last.r.idx_3dB_R + 1]
                         - Analysed.theta_deg[last.r.idx_3dB_L + 1]
        /\ last.r.HPBW > 0
        /\ last.r.pattern_params.HPBW = Returns(last.r.HPBW)

\* an interior strict peak whose -3 dB samples are not the peak's neighbours
C3_Witness ==
    /\ Returned
    /\ InteriorStrictPeak(Analysed.G, np_argmax(Analysed.G))
    /\ last.r.idx_3dB_R > last.r.idx_peak
    /\ last.r.idx_null_L > 0

(***************************************************************************)
(* C4 as claimed: whenever the main lobe touches the grid edge (the peak   *)
(* is the first sample, or the crossing next to the peak on a side is the  *)
(* inserted end sentinel) the returned HPBW is the "undefined" sentinel.   *)
(***************************************************************************)
C4_TouchesEdge(r) ==
    \/ r.idx_peak = 0
    \/ r.idx_null_L = 0
    \/ r.idx_null_R = Len(r.G) - 1

C8_FullCut == pattern_cut(obj, last.cut_angle)

\* the value of s nearest to a, the first among equally near ones
C8_NearestValue(s, a) ==
    s[CHOOSE i \in 1..Len(s) :
        /\ \A j \in 1..Len(s) : Abs(s[j] - a) >= Abs(s[i] - a)
        /\ \A j \in 1..(i - 1) : Abs(s[j] - a) > Abs(s[i] - a)]

\* the positions of cut c whose angle lies in lo..hi, and the others
C8_In(c, lo, hi) == {k \in 1..Len(c.G) : lo <= c.theta_cut[k] /\ c.theta_cut[k] <= hi}

C8_Out(c, lo, hi) == (1..Len(c.G)) \ C8_In(c, lo, hi)

\* cut c with every sample outside lo..hi set to v
C8_Masked(c, lo, hi, v) ==
    [c EXCEPT !.G = [i \in 1..Len(c.G) |-> IF i \in C8_In(c, lo, hi) THEN c.G[i] ELSE v]]

C8_Holds(c, lo, hi) ==
    /\ \A v \in {DB(-50), DB(50)} :
          PlanarOnWindow(Reduce90(C8_Masked(c, lo, hi, v))) = last.r
    /\ Returned =>
          /\ lo <= last.r.theta_deg[last.r.idx_peak + 1]
          /\ last.r.theta_deg[last.r.idx_peak + 1] <= hi
          /\ last.r.pattern_params.Peak_Angle
                = Round1(last.r.theta_deg[last.r.idx_peak + 1])
          /\ last.r.pattern_params.Gain
                = Round1(SetMax({c.G[i] : i \in C8_In(c, lo, hi)}))
          /\ \A i \in 1..Len(last.r.theta_deg) :
                Abs(last.r.theta_deg[i]) > Deg(90) => last.r.theta_deg[i] \in {lo, hi}

C8_Dominated(c, lo, hi) ==
    \E i \in C8_Out(c, lo, hi) : \A k \in C8_In(c, lo, hi) : c.G[i] > c.G[k]

MaxNt == 4

MaxNp == 5

MaxCutSteps == 16

RowLevels == {0, 303}

Surface(nt, np, lev) ==
    [i \in 1..np |->
        [j \in 1..nt |->
            IF j = 1 THEN 0
            ELSE IF i = np THEN lev[1] + 11 + 7 * j
            ELSE lev[i] + 11 * i + 7 * j]]

CutObject(nt, np, lev) ==
    [G |-> Surface(nt, np, lev), cls |-> "PlanarArray",
     pattern_params |-> << >>, phi |-> linspace(0, Deg(360), np),
     theta |-> linspace(0, Deg(180), nt)]

CutAngles == {Deg(30) * k : k \in (-MaxCutSteps)..MaxCutSteps}

PatternCut ==
    /\ obj.cls = "PlanarArray"
    /\ \E cut_angle \in CutAngles :
          last' = [cut_angle |-> cut_angle, op |-> "pattern_cut",
                   r |-> pattern_cut(obj, cut_angle)]
    /\ UNCHANGED obj

InitCut ==
    /\ \E nt \in 2..MaxNt : \E np \in 2..MaxNp : \E lev \in [1..(np - 1) -> RowLevels] :
          obj = CutObject(nt, np, lev)
    /\ last = NoCall

NextCut == PatternCut

SpecCut == InitCut /\ [][NextCut]_vars

CutTaken == last.op = "pattern_cut"

\* C6: pattern_cut(phi) and pattern_cut(phi + 360) return the same theta axis
\* and the same gain curve, for negative phi and phi >= 360 as well.
C6_Plus360Identical ==
    CutTaken =>
        /\ pattern_cut(obj, last.cut_angle + Deg(360)).theta_cut = last.r.theta_cut
        /\ pattern_cut(obj, last.cut_angle + Deg(360)).G = last.r.G

\* a cut below 0 whose two rows are not the first and hold different samples
C6_Witness ==
    /\ CutTaken
    /\ last.cut_angle < 0
    /\ last.r.idx_phi_cut1 > 0
    /\ last.r.idx_phi_cut2 > 0
    /\ obj.G[last.r.idx_phi_cut1 + 1] # obj.G[last.r.idx_phi_cut2 + 1]

\* the rows (1-based) of phi no other row is nearer to angle a than
C7_NearestRows(phi, a) ==
    {i \in 1..Len(phi) : \A k \in 1..Len(phi) : Abs(phi[i] - a) <= Abs(phi[k] - a)}

\* sample k of curve r is the surface's sample at (row, |theta_cut[k]|)
C7_SampleOf(r, k, row) ==
    \E j \in 1..Len(obj.theta) :
        /\ obj.theta[j] = Abs(r.theta_cut[k])
        /\ r.G[k] = obj.G[row][j]

C7_Spliced(r, n, row1, row2) ==
    /\ Len(r.theta_cut) = 2 * n - 1
    /\ Len(r.G) = 2 * n - 1
    /\ \A k \in 1..(2 * n - 2) : r.theta_cut[k] < r.theta_cut[k + 1]
    /\ r.theta_cut[1] = -SetMax({obj.theta[j] : j \in 1..n})
    /\ r.theta_cut[2 * n - 1] = SetMax({obj.theta[j] : j \in 1..n})
    /\ \A k \in 1..(2 * n - 1) :
          IF r.theta_cut[k] >= 0 THEN C7_SampleOf(r, k, row1)
                                 ELSE C7_SampleOf(r, k, row2)

\* C7: the cut has 2*len(theta)-1 strictly increasing angles from -max(theta)
\* to +max(theta); its samples at theta >= 0 are those of the phi row nearest
\* to cut_angle mod 360 and its samples at theta < 0 are those of the phi row
\* nearest to (cut_angle + 180) mod 360, taken at |theta|.
C7_CutIsSplice ==
    CutTaken =>
        \E row1 \in C7_NearestRows(obj.phi, last.cut_angle % Deg(360)) :
            \E row2 \in C7_NearestRows(obj.phi, (last.cut_angle + Deg(180)) % Deg(360)) :
                C7_Spliced(last.r, Len(obj.theta), row1, row2)

\* a cut between two phi rows, with more than one sample on the mirrored side
C7_Witness ==
    /\ CutTaken
    /\ Len(obj.theta) >= 3
    /\ \A i \in 1..Len(obj.phi) : obj.phi[i] # last.cut_angle % Deg(360)
    /\ obj.G[last.r.idx_phi_cut1 + 1] # obj.G[last.r.idx_phi_cut2 + 1]

(***************************************************************************)
(* Element geometry: LinearArray.__init__ and PlanarArray.__init__.        *)
(* Spacings, radii and coordinates are given in hundredths of a            *)
(* wavelength; stored positions are integers in units of 0.01 / PosUnit    *)
(* wavelength, PosUnit being a multiple of every element count a linear    *)
(* array of the model can have and of 2, so that np.mean and the half      *)
(* spacing of the 'tri' stagger are exact.                                 *)
(***************************************************************************)
MaxElem == 4

MaxSide == 3

RECURSIVE Factorial(_)
Factorial(n) == IF n <= 1 THEN 1 ELSE n * Factorial(n - 1)

PosUnit == 2 * Factorial(MaxElem)

\* the sum of s[lo..hi], by halves
RECURSIVE SumOver(_, _, _)
SumOver(s, lo, hi) ==
    IF lo > hi THEN 0
    ELSE IF lo = hi THEN s[lo]
    ELSE SumOver(s, lo, (lo + hi) \div 2) + SumOver(s, (lo + hi) \div 2 + 1, hi)

np_sum(s) == SumOver(s, 1, Len(s))

np_mean(s) == np_sum(s) \div Len(s)

\* the sequence left as it is, not summed
np_cumsum_none(s) == s

np_cumsum(s) == [i \in 1..Len(s) |-> np_sum(SubSeq(s, 1, i))]

Scaled(s, f) == [i \in 1..Len(s) |-> f * s[i]]

\* np.linspace(0, n-1, n) * spacing
Ramp(n, spacing) == [i \in 1..n |-> (i - 1) * spacing * PosUnit]

\* the element_spacing argument with its Python type
Scalar(v) == [type |-> "float", v |-> v]

List(v) == [type |-> "list", v |-> v]

NoObject == [cls |-> "none"]

\* an attribute not assigned yet
NoValue == [of |-> "nothing"]

\* line 57 left out
Centre_none(X) == X

\* line 57: self.X = self.X - np.mean(self.X)
Centre(X) == [i \in 1..Len(X) |-> X[i] - np_mean(X)]

LinearBuilt(element_spacing, X) ==
    [X |-> Centre(X), cls |-> "LinearArray",
     element_spacing |-> element_spacing.v, num_elem |-> Len(X),
     raised |-> "none"]

\* lines 44-57 without the assert of line 50
LinearArray_init_unchecked(num_elem, element_spacing) ==
    IF ~(num_elem > 0) THEN Raise("AssertionError", "num_elem > 0")
    ELSE IF element_spacing.type \in {"int", "float"}
    THEN LinearBuilt(element_spacing, Ramp(num_elem, element_spacing.v))
    ELSE IF element_spacing.type \in {"list", "tuple", "ndarray"}
    THEN LinearBuilt(element_spacing,
                     <<0>> \o Scaled(np_cumsum(element_spacing.v), PosUnit))
    ELSE Raise("AssertionError", "Invalid element_spacing")

\* lines 44-57
LinearArray_init(num_elem, element_spacing) ==
    IF ~(num_elem > 0) THEN Raise("AssertionError", "num_elem > 0")
    ELSE IF element_spacing.type \in {"int", "float"}
    THEN IF ~(element_spacing.v > 0) THEN Raise("AssertionError", "element_spacing > 0")
         ELSE LinearBuilt(element_spacing, Ramp(num_elem, element_spacing.v))
    ELSE IF element_spacing.type \in {"list", "tuple", "ndarray"}
    THEN LinearBuilt(element_spacing,
                     <<0>> \o Scaled(np_cumsum(element_spacing.v), PosUnit))
    ELSE Raise("AssertionError", "Invalid element_spacing")

\* lines 57-62: [Y, X] = np.meshgrid(row, col) has one line per col entry and
\* one column per row entry; every second column of X, from the first, is
\* moved by d_[shape] * element_spacing[1]; both are then read line by line
GridX(num_elem, element_spacing, shape) ==
    [k \in 1..(num_elem[1] * num_elem[2]) |->
        ((k - 1) \div num_elem[1]) * element_spacing[2] * PosUnit
        + (IF ((k - 1) % num_elem[1]) % 2 = 0 /\ shape = "tri"
           THEN (element_spacing[2] * PosUnit) \div 2 ELSE 0)]

GridY(num_elem, element_spacing) ==
    [k \in 1..(num_elem[1] * num_elem[2]) |->
        ((k - 1) % num_elem[1]) * element_spacing[1] * PosUnit]

\* cos and sin of np.linspace(0, 2*pi, n+1)[:-1] for n dividing 4
QuarterCos == <<1, 0, -1, 0>>

QuarterSin == <<0, 1, 0, -1>>

RingX(n, radius) == [k \in 1..n |-> radius * PosUnit * QuarterCos[((k - 1) * 4) \div n + 1]]

RingY(n, radius) == [k \in 1..n |-> radius * PosUnit * QuarterSin[((k - 1) * 4) \div n + 1]]

\* lines 73-76: the rings concatenated in order; np.linspace refuses a
\* negative number of samples (n + 1 < 0)
RECURSIVE Rings(_, _, _, _)
Rings(num_elem, radius, idx, acc) ==
    IF idx > Len(num_elem) THEN acc
    ELSE IF num_elem[idx] + 1 < 0 THEN Raise("ValueError", "np.linspace(0,2*np.pi,n+1)")
    ELSE Rings(num_elem, radius, idx + 1,
               [X |-> acc.X \o RingX(num_elem[idx], radius[idx]),
                Y |-> acc.Y \o RingY(num_elem[idx], radius[idx]),
                raised |-> "none"])

PlanarBuilt(shape, num_elem, X, Y) ==
    [X |-> X, Y |-> Y, cls |-> "PlanarArray", num_elem |-> num_elem,
     raised |-> "none", shape |-> shape]

PlanarGrid(array_shape) ==
    IF ~(array_shape[2][1] > 0) \/ ~(array_shape[2][2] > 0)
    THEN Raise("AssertionError", "array length can not be zero")
    ELSE PlanarBuilt(array_shape[1], array_shape[2],
                     GridX(array_shape[2], array_shape[3], array_shape[1]),
                     GridY(array_shape[2], array_shape[3]))

PlanarCirc(num_elem, pos) ==
    IF pos.raised # "none" THEN pos ELSE PlanarBuilt("circ", num_elem, pos.X, pos.Y)

\* lines 49-85
PlanarArray_init(array_shape) ==
    IF array_shape[1] \in {"rect", "tri"} THEN PlanarGrid(array_shape)
    ELSE IF array_shape[1] = "circ"
    THEN PlanarCirc(array_shape[2],
                    Rings(array_shape[2], array_shape[3], 1,
                          [X |-> << >>, Y |-> << >>, raised |-> "none"]))
    ELSE IF array_shape[1] = "other"
    THEN PlanarBuilt("other", << >>,
                     Scaled(array_shape[2], PosUnit), Scaled(array_shape[3], PosUnit))
    ELSE Raise("Exception", "not a valid planar array shape")

(***************************************************************************)
(* Angular grids.  A grid is np.linspace(start, stop, num), held by its     *)
(* three arguments (angles in steps of 0.02 deg); num = 0 is the empty     *)
(* list of the constructors' default.  any(grid) is Python's any(): some   *)
(* sample is not zero.                                                     *)
(***************************************************************************)
Grid(start, stop, num) == [num |-> num, start |-> start, stop |-> stop]

NoGrid == Grid(0, 0, 0)

any(g) == g.num > 0 /\ (g.start # 0 \/ (g.num > 1 /\ g.stop # 0))

np_min(s) == CHOOSE m \in {s[i] : i \in 1..Len(s)} : \A i \in 1..Len(s) : m <= s[i]

\* the integer part of the square root of n, found between lo and hi
RECURSIVE IsqrtIn(_, _, _)
IsqrtIn(n, lo, hi) ==
    IF lo >= hi THEN lo
    ELSE IF ((lo + hi + 1) \div 2) * ((lo + hi + 1) \div 2) <= n
         THEN IsqrtIn(n, (lo + hi + 1) \div 2, hi)
         ELSE IsqrtIn(n, lo, (lo + hi + 1) \div 2 - 1)

Isqrt(n) == IsqrtIn(n, 0, 46340)

\* an extent in position units, in units of 0.005 wavelength
Extent(s) == (np_max(s) - np_min(s)) \div (PosUnit \div 2)

\* lines 95, 97-98: int(180 / ((51 / array_length) / 4)) with
\* array_length = sqrt(dx^2 + dy^2) / 200, i.e. int(sqrt(36 (dx^2 + dy^2)) / 85);
\* a zero length gives HPBW = inf and Nt = 0
PlanarNtRaw(X, Y) == Isqrt(36 * (Extent(X) * Extent(X) + Extent(Y) * Extent(Y))) \div 85

\* line 99 left out
MakeOdd_none(Nt) == Nt

\* line 99: Nt = Nt + (Nt+1) % 2
MakeOdd(Nt) == Nt + ((Nt + 1) % 2)

\* line 100: Nt = max(Nt, 181)
AtLeast181(Nt) == IF Nt > 181 THEN Nt ELSE 181

PlanarNt(X, Y) == AtLeast181(MakeOdd(PlanarNtRaw(X, Y)))

PlanarDefaults ==
    [SLL |-> << >>, element_pattern |-> TRUE, phi |-> NoGrid,
     scan_angle |-> <<0, 0>>, theta |-> NoGrid, window |-> "None"]

\* lines 88-93: the keyword arguments stored
PlanarStored(g, kw, theta, phi) ==
    [AF |-> NoValue, I |-> NoValue, Icol |-> NoValue, Irow |-> NoValue,
     P |-> NoValue, Pcol |-> NoValue, Prow |-> NoValue, SLL |-> kw.SLL,
     X |-> g.X, Y |-> g.Y, cls |-> "PlanarArray",
     element_pattern |-> kw.element_pattern, num_elem |-> g.num_elem,
     phi |-> phi, raised |-> "none", scan_angle |-> kw.scan_angle,
     shape |-> g.shape, theta |-> theta, window |-> kw.window]

\* lines 95-103: np.max of an empty X or Y raises; Nt is assigned only where
\* theta is derived, and read where phi is derived
PlanarGridsOf(g, kw, Nt) ==
    IF ~any(kw.theta)
    THEN PlanarStored(g, kw, Grid(0, Deg(180), Nt),
                      IF ~any(kw.phi) THEN Grid(0, Deg(360), 2 * Nt - 1) ELSE kw.phi)
    ELSE IF ~any(kw.phi) THEN Raise("UnboundLocalError", "Nt")
    ELSE PlanarStored(g, kw, kw.theta, kw.phi)

PlanarGrids(g, kw) ==
    IF Len(g.X) = 0 \/ Len(g.Y) = 0
    THEN Raise("ValueError", "np.max of a zero-size array")
    ELSE PlanarGridsOf(g, kw, PlanarNt(g.X, g.Y))

PlanarAfterGeometry(g, kw) == IF g.raised # "none" THEN g ELSE PlanarGrids(g, kw)

\* lines 38-103
PlanarArray_new(array_shape, kw) == PlanarAfterGeometry(PlanarArray_init(array_shape), kw)

(***************************************************************************)
(* LinearArray: the stored keyword arguments and calc_AF.  Amplitudes,     *)
(* phases and the array factor are held by what they are computed from:    *)
(* a taper by its scipy constructor and arguments, AF by the positions'    *)
(* excitation, scan angle, grid and element pattern it was summed over.    *)
(* None is "None" for a window name and the empty tuple for a number.      *)
(***************************************************************************)
LinearDefaults ==
    [SLL |-> << >>, element_gain |-> 0, element_pattern |-> TRUE,
     scan_angle |-> 0, theta |-> NoGrid, window |-> "None"]

\* lines 58-63
LinearStored(g, kw) ==
    [AF |-> NoValue, I |-> NoValue, P |-> NoValue, SLL |-> kw.SLL, X |-> g.X,
     X_ndim |-> 1, cls |-> "LinearArray", element_gain |-> kw.element_gain,
     element_pattern |-> kw.element_pattern,
     element_spacing |-> g.element_spacing, envelopes |-> NoValue,
     num_elem |-> g.num_elem, pattern_params |-> NoValue, raised |-> "none",
     scan_angle |-> kw.scan_angle, scan_range |-> NoGrid, theta |-> kw.theta,
     window |-> kw.window]

LinearAfterGeometry(g, kw) == IF g.raised # "none" THEN g ELSE LinearStored(g, kw)

\* lines 33-63
LinearArray_new(num_elem, element_spacing, kw) ==
    LinearAfterGeometry(LinearArray_init(num_elem, element_spacing), kw)

\* the progressive phase for a scan angle
Phase(name, scan_angle) == [of |-> name, scan_angle |-> scan_angle]

\* Python truth of an optional window name and of an optional number
WindowGiven(window) == window \notin {"None", ""}

NumberGiven(x) == Len(x) > 0 /\ x[1] # 0

np_ones(n) == [M |-> n, nbar |-> 0, of |-> "np.ones", sll |-> 0]

get_window(window, n) == [M |-> n, nbar |-> 0, of |-> window, sll |-> 0]

taylor(n, nbar, sll) == [M |-> n, nbar |-> nbar, of |-> "taylor", sll |-> sll]

chebwin(n, at) == [M |-> n, nbar |-> 0, of |-> "chebwin", sll |-> at]

\* the taper with a given window taking precedence over SLL
Taper_window_first(window, SLL, n) ==
    IF WindowGiven(window) THEN get_window(window, n)
    ELSE IF NumberGiven(SLL)
    THEN (IF SLL[1] < 50 THEN taylor(n, 5, SLL[1]) ELSE chebwin(n, SLL[1]))
    ELSE np_ones(n)

\* linear_array.py 75-83, planar_array.py 122-134 (per axis)
Taper(window, SLL, n) ==
    IF NumberGiven(SLL)
    THEN (IF SLL[1] < 50 THEN taylor(n, 5, SLL[1]) ELSE chebwin(n, SLL[1]))
    ELSE IF WindowGiven(window) THEN get_window(window, n)
    ELSE np_ones(n)

\* lines 88-89: int(180 / ((51 / array_length) / 2)) with array_length the
\* extent in wavelengths, i.e. int(3 * extent / 85) for the extent in units
\* of 0.005 wavelength; a zero length gives HPBW = inf and Nt = 0
LinearNtRaw(X) == (3 * Extent(X)) \div 85

\* lines 90-91: if Nt % 2 == 0: Nt = Nt + 1
MakeOddLinear(Nt) == IF Nt % 2 = 0 THEN Nt + 1 ELSE Nt

LinearNt(X) == AtLeast181(MakeOddLinear(LinearNtRaw(X)))

\* lines 87-93: the grid calc_AF works on
LinearTheta(o) == IF ~any(o.theta) THEN Grid(Deg(-90), Deg(90), LinearNt(o.X)) ELSE o.theta

\* the outcome of a call on an object: the exception that left it, if any,
\* and the object as the call left it
Outcome(exc, expr, o) == [at |-> expr, o |-> o, raised |-> exc]

\* calc_AF_, lines 101-117: the normalised sum over the elements
LinearAF(o) ==
    [I |-> o.I,
     element_gain |-> IF o.element_pattern THEN o.element_gain ELSE 0,
     element_pattern |-> o.element_pattern, of |-> "AF",
     scan_angle |-> o.scan_angle, theta |-> o.theta]

\* lines 99-117: X is made two-dimensional; line 108 reads theta[1]
LinearArray_calc_AF_(o) ==
    IF o.theta.num < 2 THEN Outcome("IndexError", "theta[1]", [o EXCEPT !.X_ndim = 2])
    ELSE Outcome("none", "", [o EXCEPT !.X_ndim = 2, !.AF = LinearAF(o)])

\* lines 74-83
LinearExcited(o) ==
    [o EXCEPT !.P = Phase("P", o.scan_angle),
              !.I = Taper(o.window, o.SLL, o.num_elem)]

\* lines 88-96 without the test of line 87: the grid is derived at every call
LinearGridded_always(o) ==
    IF o.X_ndim = 2 /\ Len(o.X) > 1
    THEN Outcome("TypeError", "int(180 / (HPBW / 2))", o)
    ELSE LinearArray_calc_AF_([o EXCEPT !.theta = Grid(Deg(-90), Deg(90), LinearNt(o.X))])

\* lines 87-96.  Once calc_AF_ has made X two-dimensional, max(X) - min(X)
\* is an array, and int() of an array of more than one entry raises
LinearGridded(o) ==
    IF ~any(o.theta) /\ o.X_ndim = 2 /\ Len(o.X) > 1
    THEN Outcome("TypeError", "int(180 / (HPBW / 2))", o)
    ELSE LinearArray_calc_AF_([o EXCEPT !.theta = LinearTheta(o)])

\* lines 69-97
LinearArray_calc_AF(o) == LinearGridded(LinearExcited(o))

\* sample idx (from 0) of np.linspace(start, stop, num)
GridAt(g, idx) ==
    IF g.num = 1 THEN g.start
    ELSE g.start + (idx * (g.stop - g.start)) \div (g.num - 1)

\* a row of the envelopes array: zeros, the pattern db20(AF) of one scan
\* angle, or the pointwise maximum of other rows
ZeroRow == [of |-> "np.zeros"]

PatternRow(AF) == [AF |-> AF, of |-> "db20"]

MaxRow(rows) == [of |-> "np.max", rows |-> rows]

\* the envelopes array: np.zeros of one row per scan angle and one column
\* per sample of theta as it was at line 254, then filled
Envelopes(name, scan_range, theta) ==
    [of |-> name, rows |-> [i \in 1..scan_range.num |-> ZeroRow],
     scan_range |-> scan_range, theta |-> theta]

\* lines 255-257: for each scan angle, self.scan_angle is set and calc_AF
\* read; the row assigned must have as many samples as theta had at line 254
RECURSIVE EnvelopeLoop(_, _)
EnvelopeLoop(o, idx) ==
    IF idx >= o.scan_range.num THEN Outcome("none", "", o)
    ELSE LET r == LinearArray_calc_AF([o EXCEPT !.scan_angle = GridAt(o.scan_range, idx)])
         IN  IF r.raised # "none" THEN r
             ELSE IF r.o.theta.num # o.envelopes.theta.num
             THEN Outcome("ValueError",
                          "self.envelopes[idx,:] = db20(self.calc_AF.ravel())", r.o)
             ELSE EnvelopeLoop([r.o EXCEPT !.envelopes.rows[idx + 1] = PatternRow(r.o.AF)],
                               idx + 1)

\* lines 258-260: the last row becomes the maximum of the others (none when
\* there is one row), envelopes is transposed (its rows are the columns from
\* then on), scan_angle is put back
EnvelopeClosed(r, scan_angle_) ==
    IF r.raised # "none" THEN r
    ELSE IF r.o.scan_range.num < 2
    THEN Outcome("ValueError", "np.max(self.envelopes[:-1,:],axis=0)", r.o)
    ELSE Outcome("none", "",
                 [r.o EXCEPT !.envelopes =
                                 [of |-> "envelopes",
                                  rows |-> [r.o.envelopes.rows EXCEPT
                                               ![r.o.scan_range.num] =
                                                   MaxRow(SubSeq(r.o.envelopes.rows, 1,
                                                                 r.o.scan_range.num - 1))],
                                  scan_range |-> r.o.scan_range, theta |-> r.o.theta],
                             !.scan_angle = scan_angle_])

\* lines 250-260, for theta2 >= theta1 and delta_theta > 0
LinearArray_calc_envelope(o, theta1, theta2, delta_theta) ==
    EnvelopeClosed(
        EnvelopeLoop(
            [o EXCEPT !.scan_range = Grid(theta1, theta2, (theta2 - theta1) \div delta_theta + 1),
                      !.envelopes = Envelopes("np.zeros",
                                              Grid(theta1, theta2,
                                                   (theta2 - theta1) \div delta_theta + 1),
                                              o.theta)],
            0),
        o.scan_angle)

\* lines 119-143 on an object whose AF is held by what it was computed from:
\* the parameters are those of G = db20(self.AF) over self.theta
LinearArray_pattern_params(o) ==
    IF o.AF = NoValue THEN Outcome("AttributeError", "self.AF", o)
    ELSE Outcome("none", "",
                 [o EXCEPT !.pattern_params = [AF |-> o.AF, of |-> "pattern_params",
                                               theta |-> o.theta]])

(***************************************************************************)
(* PlanarArray.calc_AF.  The array factor is held by the amplitudes it was *)
(* summed with (row and column tapers for 'rect', one amplitude per        *)
(* element otherwise), the scan angle, the two grids and the element       *)
(* pattern.                                                                *)
(***************************************************************************)
PlanarAF(o, I) ==
    [I |-> I, element_pattern |-> o.element_pattern, of |-> "AF",
     phi |-> o.phi, scan_angle |-> o.scan_angle, theta |-> o.theta]

\* lines 161-162 and 187-188 read self.theta[1] and phi[1]
PlanarSummed(o, AF) ==
    IF o.theta.num < 2 THEN Outcome("IndexError", "self.theta[1]", o)
    ELSE IF o.phi.num < 2 THEN Outcome("IndexError", "phi[1]", o)
    ELSE Outcome("none", "", [o EXCEPT !.AF = AF])

\* lines 145-167
PlanarArray_calc_AF_rect(o) == PlanarSummed(o, PlanarAF(o, <<o.Irow, o.Icol>>))

\* lines 173-177: P from the scan angle, I = np.ones(self.P.shape)
PlanarElementwise(o) ==
    [o EXCEPT !.P = Phase("P", o.scan_angle), !.I = np_ones(Len(o.X))]

\* lines 169-193
PlanarArray_calc_AF_(o) ==
    PlanarSummed(PlanarElementwise(o), PlanarAF(PlanarElementwise(o), <<PlanarElementwise(o).I>>))

\* lines 119-134: the phases and tapers of the two axes
PlanarRectExcited(o) ==
    [o EXCEPT !.Pcol = Phase("Pcol", o.scan_angle),
              !.Prow = Phase("Prow", o.scan_angle),
              !.Icol = Taper(o.window, o.SLL, o.num_elem[2]),
              !.Irow = Taper(o.window, o.SLL, o.num_elem[1])]

\* lines 110-141
PlanarArray_calc_AF(o) ==
    IF o.shape = "rect" THEN PlanarArray_calc_AF_rect(PlanarRectExcited(o))
    ELSE PlanarArray_calc_AF_(o)

(***************************************************************************)
(* Constructor calls, made while the program holds no object.  A           *)
(* constructor that raises produces no object.                             *)
(***************************************************************************)
SpacingVals == {-50, 0, 50, 100, 900}

ListSpacingVals == {-50, 50, 100, 900}

GridSpacingVals == {0, 50, 100, 600}

RingCounts == {-2, -1, 0, 1, 2, 4}

RadiusVals == {50, 100}

CoordVals == {-50, 0, 50}

SeqsUpTo(S, lo, hi) == UNION {[1..n -> S] : n \in lo..hi}

GridShapes ==
    {<<tag, <<n0, n1>>, <<s0, s1>>>> :
        tag \in {"rect", "tri"}, n0 \in 0..MaxSide, n1 \in 0..MaxSide,
        s0 \in GridSpacingVals, s1 \in GridSpacingVals}

CircShapes ==
    UNION {{<<"circ", n, r>> : n \in [1..k -> RingCounts], r \in [1..k -> RadiusVals]} :
              k \in 1..2}

OtherShapes ==
    {<<"other", x, y>> : x \in SeqsUpTo(CoordVals, 1, 2), y \in SeqsUpTo(CoordVals, 1, 2)}

ArrayShapes ==
    GridShapes \cup CircShapes \cup OtherShapes \cup {<<"hex", <<1, 1>>, <<50, 50>>>>}

Produced(r) == IF r.raised = "none" THEN r ELSE NoObject

LinearNew(num_elem, element_spacing, kw) ==
    /\ obj = NoObject
    /\ obj' = Produced(LinearArray_new(num_elem, element_spacing, kw))
    /\ last' = [cls |-> "LinearArray", element_spacing |-> element_spacing,
                kw |-> kw, num_elem |-> num_elem, op |-> "__init__",
                r |-> LinearArray_new(num_elem, element_spacing, kw)]

LinearInit(num_elem, element_spacing) == LinearNew(num_elem, element_spacing, LinearDefaults)

LinearInitScalar ==
    \E num_elem \in (-1)..MaxElem, v \in SpacingVals : LinearInit(num_elem, Scalar(v))

LinearInitList ==
    \E num_elem \in (-1)..MaxElem, v \in SeqsUpTo(ListSpacingVals, 0, MaxElem - 1) :
        LinearInit(num_elem, List(v))

PlanarNew(array_shape, kw) ==
    /\ obj = NoObject
    /\ obj' = Produced(PlanarArray_new(array_shape, kw))
    /\ last' = [array_shape |-> array_shape, cls |-> "PlanarArray", kw |-> kw,
                op |-> "__init__", r |-> PlanarArray_new(array_shape, kw)]

PlanarInit == \E array_shape \in ArrayShapes : PlanarNew(array_shape, PlanarDefaults)

\* grids a caller supplies: theta 0..180 in 5 points, a lone theta = 0,
\* phi 0..360 in 9 points
ThetaArgs == {NoGrid, Grid(0, Deg(180), 5), Grid(0, 0, 1)}

PhiArgs == {NoGrid, Grid(0, Deg(360), 9)}

GridArgShapes ==
    {<<"rect", <<1, 1>>, <<50, 50>>>>, <<"rect", <<2, 3>>, <<50, 50>>>>,
     <<"tri", <<3, 3>>, <<600, 600>>>>, <<"circ", <<4>>, <<100>>>>,
     <<"other", <<-50, 50>>, <<0, 0>>>>}

PlanarInitGrids ==
    \E array_shape \in GridArgShapes, theta \in ThetaArgs, phi \in PhiArgs :
        PlanarNew(array_shape, [PlanarDefaults EXCEPT !.theta = theta, !.phi = phi])

PlanarCalcAF ==
    /\ obj.cls = "PlanarArray"
    /\ obj' = PlanarArray_calc_AF(obj).o
    /\ last' = [cls |-> "PlanarArray", o |-> obj, op |-> "calc_AF",
                r |-> PlanarArray_calc_AF(obj)]

LinearCalcAF ==
    /\ obj.cls = "LinearArray"
    /\ obj' = LinearArray_calc_AF(obj).o
    /\ last' = [cls |-> "LinearArray", o |-> obj, op |-> "calc_AF",
                r |-> LinearArray_calc_AF(obj)]

InitGeom == obj = NoObject /\ last = NoCall

NextGeom ==
    LinearInitScalar \/ LinearInitList \/ LinearCalcAF
    \/ PlanarInit \/ PlanarInitGrids \/ PlanarCalcAF

SpecGeom == InitGeom /\ [][NextGeom]_vars

(***************************************************************************)
(* Excitation and array factor: arrays constructed with a window, a target *)
(* SLL, a scan angle and a grid, then calc_AF, calc_envelope and           *)
(* calc_peak_sll_hpbw in any order.                                        *)
(***************************************************************************)
WindowVals == {"None", "hamming"}

\* no SLL, and targets of 0, 30, 50 and 60 dB
SLLVals == {<< >>, <<0>>, <<30>>, <<50>>, <<60>>}

ScanVals == {0, Deg(30)}

LinearThetaArgs == {NoGrid, Grid(Deg(-90), Deg(90), 5)}

LinearKws ==
    {[LinearDefaults EXCEPT !.window = window, !.SLL = SLL, !.scan_angle = scan_angle,
                            !.theta = theta, !.element_pattern = element_pattern] :
        window \in WindowVals, SLL \in SLLVals, scan_angle \in ScanVals,
        theta \in LinearThetaArgs, element_pattern \in BOOLEAN}

LinearInitKw ==
    \E num_elem \in {1, MaxElem}, kw \in LinearKws : LinearNew(num_elem, Scalar(50), kw)

PlanarKws ==
    {[PlanarDefaults EXCEPT !.window = window, !.SLL = SLL, !.scan_angle = <<scan_angle, 0>>] :
        window \in WindowVals, SLL \in SLLVals, scan_angle \in ScanVals}

PlanarInitKw ==
    \E array_shape \in GridArgShapes, kw \in PlanarKws : PlanarNew(array_shape, kw)

\* (theta1, theta2, delta_theta): the default sweep, a sweep of one angle,
\* a sweep of three
EnvelopeArgs == {<<0, Deg(45), Deg(5)>>, <<0, 0, Deg(5)>>, <<0, Deg(30), Deg(15)>>}

LinearCalcEnvelope ==
    /\ obj.cls = "LinearArray"
    /\ \E a \in EnvelopeArgs :
          /\ obj' = LinearArray_calc_envelope(obj, a[1], a[2], a[3]).o
          /\ last' = [cls |-> "LinearArray", o |-> obj, op |-> "calc_envelope",
                      r |-> LinearArray_calc_envelope(obj, a[1], a[2], a[3])]

LinearCalcPeakOfAF ==
    /\ obj.cls = "LinearArray"
    /\ obj' = LinearArray_pattern_params(obj).o
    /\ last' = [cls |-> "LinearArray", o |-> obj, op |-> "calc_peak_sll_hpbw",
                r |-> LinearArray_pattern_params(obj)]

NextAF ==
    LinearInitKw \/ LinearCalcAF \/ LinearCalcEnvelope \/ LinearCalcPeakOfAF
    \/ PlanarInitKw \/ PlanarCalcAF

SpecAF == InitGeom /\ [][NextAF]_vars

LinearConstructed ==
    last.op = "__init__" /\ last.cls = "LinearArray" /\ last.r.raised = "none"

\* the spacing supplied between elements i and i+1
C9_Supplied(i) ==
    IF last.element_spacing.type = "list" THEN last.element_spacing.v[i]
    ELSE last.element_spacing.v

C9_Count ==
    IF last.element_spacing.type = "list" THEN Len(last.element_spacing.v) + 1
    ELSE last.num_elem

\* C9: after LinearArray construction, with one spacing or a sequence of
\* spacings, the stored positions have mean zero and successive positions
\* differ by the supplied spacing(s).
C9_CentredWithSpacing ==
    LinearConstructed =>
        /\ Len(obj.X) = C9_Count
        /\ np_sum(obj.X) = 0
        /\ \A i \in 1..(Len(obj.X) - 1) : obj.X[i + 1] - obj.X[i] = C9_Supplied(i) * PosUnit

\* a sequence of unequal spacings; the first element is off the origin
C9_Witness ==
    /\ LinearConstructed
    /\ last.element_spacing.type = "list"
    /\ Len(obj.X) >= 3
    /\ \A i \in 1..Len(last.element_spacing.v) : last.element_spacing.v[i] > 0
    /\ last.element_spacing.v[1] # last.element_spacing.v[2]
    /\ obj.X[1] # 0

\* C10: after PlanarArray construction, whatever the shape tag, and after
\* calc_AF, the stored coordinates X and Y each have mean zero.
C10_PlanarMeanZero ==
    obj.cls = "PlanarArray" => (np_sum(obj.X) = 0 /\ np_sum(obj.Y) = 0)

LinearInitCalled == last.op = "__init__" /\ last.cls = "LinearArray"

ScalarSpacing == last.element_spacing.type \in {"int", "float"}

\* C11: with a scalar spacing, LinearArray construction fails and produces no
\* object exactly when num_elem <= 0 or element_spacing <= 0.
C11_ScalarFailsIffNonPositive ==
    (LinearInitCalled /\ ScalarSpacing) =>
        /\ (last.r.raised # "none") <=> (last.num_elem <= 0 \/ last.element_spacing.v <= 0)
        /\ (last.r.raised # "none") <=> (obj = NoObject)
        /\ (last.r.raised = "none") => (obj.cls = "LinearArray" /\ obj = last.r)

\* a positive count with a spacing of zero is refused
C11_Witness ==
    /\ LinearInitCalled /\ ScalarSpacing
    /\ last.num_elem > 0 /\ last.element_spacing.v = 0
    /\ last.r.raised = "AssertionError" /\ obj = NoObject

RECURSIVE C13_Partial(_, _)
\* the sum of the first k entries of s
C13_Partial(s, k) == IF k = 0 THEN 0 ELSE C13_Partial(s, k - 1) + s[k]

\* C13: with a spacing sequence s and num_elem > 0 the positions are
\* [0, s1, s1+s2, ...] before centring (so each stored position is that value
\* less the mean of those values) and the element count is len(s)+1 whatever
\* num_elem was passed.
C13_CumulativeWithCount ==
    (LinearInitCalled /\ ~ScalarSpacing /\ last.num_elem > 0) =>
        /\ last.r.raised = "none"
        /\ obj.num_elem = Len(last.element_spacing.v) + 1
        /\ Len(obj.X) = Len(last.element_spacing.v) + 1
        /\ \A i \in 1..Len(obj.X) :
              obj.X[i] - obj.X[1] = C13_Partial(last.element_spacing.v, i - 1) * PosUnit
        /\ np_sum(obj.X) = 0

\* unequal spacings, and a num_elem argument that is not len(s)+1
C13_Witness ==
    /\ LinearInitCalled /\ ~ScalarSpacing /\ last.num_elem > 0
    /\ Len(last.element_spacing.v) >= 2
    /\ last.element_spacing.v[1] # last.element_spacing.v[2]
    /\ last.num_elem # Len(last.element_spacing.v) + 1
    /\ obj.num_elem = Len(last.element_spacing.v) + 1

PlanarInitCalled == last.op = "__init__" /\ last.cls = "PlanarArray"

\* the constructor was given a spacing or an element count that is not positive
C12_NonPositive ==
    \/ /\ LinearInitCalled
       /\ \/ last.num_elem <= 0
          \/ ScalarSpacing /\ last.element_spacing.v <= 0
          \/ ~ScalarSpacing /\ \E i \in 1..Len(last.element_spacing.v) :
                                   last.element_spacing.v[i] <= 0
    \/ /\ PlanarInitCalled
       /\ last.array_shape[1] \in {"rect", "tri"}
       /\ \E i \in 1..2 : last.array_shape[2][i] <= 0 \/ last.array_shape[3][i] <= 0
    \/ /\ PlanarInitCalled
       /\ last.array_shape[1] = "circ"
       /\ \E i \in 1..Len(last.array_shape[2]) : last.array_shape[2][i] <= 0

\* C12: every configuration with a non-positive spacing or element count
\* (a rect/tri row or column spacing, a ring element count, an entry of a
\* linear spacing sequence) is refused by the constructor.
C12_NonPositiveRejected ==
    C12_NonPositive => (last.r.raised # "none" /\ obj = NoObject)

PlanarConstructed == PlanarInitCalled /\ last.r.raised = "none"

\* C14: after PlanarArray construction len(X) = len(Y) = rows*cols for 'rect'
\* and 'tri', and len(X) = len(Y) = the sum of the ring element counts for
\* 'circ'.
C14_ElementCount ==
    PlanarConstructed =>
        /\ last.array_shape[1] \in {"rect", "tri"} =>
              /\ Len(obj.X) = last.array_shape[2][1] * last.array_shape[2][2]
              /\ Len(obj.Y) = last.array_shape[2][1] * last.array_shape[2][2]
        /\ last.array_shape[1] = "circ" =>
              /\ Len(obj.X) = np_sum(last.array_shape[2])
              /\ Len(obj.Y) = np_sum(last.array_shape[2])

\* a grid of an odd number of points, at least 181, from start to stop
OddAtLeast181(g, start, stop) ==
    g.num % 2 = 1 /\ g.num >= 181 /\ g.start = start /\ g.stop = stop

\* calc_AF of a LinearArray that holds no theta grid has returned
LinearAutoSized ==
    /\ last.op = "calc_AF" /\ last.cls = "LinearArray"
    /\ ~any(last.o.theta) /\ last.r.raised = "none"

\* a PlanarArray was constructed without a theta grid
PlanarAutoSized == PlanarConstructed /\ ~any(last.kw.theta)

\* C15: an auto-sized theta grid has an odd number of points, at least 181,
\* on [-90,90] for the linear engine and on [0,180] for the planar engine,
\* whatever the array length; the planar phi grid derived with it has
\* 2*Nt-1 points, an odd number, on [0,360].
C15_AutoGridOdd181 ==
    /\ LinearAutoSized => OddAtLeast181(obj.theta, Deg(-90), Deg(90))
    /\ PlanarAutoSized =>
          /\ OddAtLeast181(obj.theta, 0, Deg(180))
          /\ ~any(last.kw.phi) =>
                /\ obj.phi.num = 2 * obj.theta.num - 1
                /\ OddAtLeast181(obj.phi, 0, Deg(360))

\* a planar array long enough for the sizing rule to exceed the floor of 181,
\* both grids derived
C15_Witness ==
    /\ PlanarAutoSized /\ ~any(last.kw.phi)
    /\ obj.theta.num > 181 /\ obj.phi.num = 2 * obj.theta.num - 1

\* the same for the linear engine, and the single element of length zero
C15_WitnessLinear == LinearAutoSized /\ obj.theta.num > 181

C15_WitnessZeroLength ==
    \/ LinearAutoSized /\ Len(obj.X) = 1
    \/ PlanarAutoSized /\ Len(obj.X) = 1

C15_WitnessRawEven ==
    PlanarAutoSized /\ PlanarNtRaw(obj.X, obj.Y) > 181 /\ PlanarNtRaw(obj.X, obj.Y) % 2 = 0

\* the constructor was called with a layout of at least one element that
\* lines 49-85 accept
C16_LayoutBuilt ==
    /\ PlanarInitCalled
    /\ PlanarArray_init(last.array_shape).raised = "none"
    /\ Len(PlanarArray_init(last.array_shape).X) > 0

\* C16: theta and phi are optional independently: for every combination of
\* supplied and not supplied grids the construction succeeds, and a grid
\* that was not supplied is derived, phi on [0,360], theta on [0,180].
C16_GridsIndependentlyOptional ==
    C16_LayoutBuilt =>
        /\ last.r.raised = "none"
        /\ any(last.kw.theta) => obj.theta = last.kw.theta
        /\ any(last.kw.phi) => obj.phi = last.kw.phi
        /\ ~any(last.kw.theta) => obj.theta.start = 0 /\ obj.theta.stop = Deg(180)
        /\ ~any(last.kw.phi) => obj.phi.start = 0 /\ obj.phi.stop = Deg(360)

\* the three combinations in which the constructor returns
C16_WitnessBoth == C16_LayoutBuilt /\ any(last.kw.theta) /\ any(last.kw.phi) /\ last.r.raised = "none"

C16_WitnessPhiOnly == C16_LayoutBuilt /\ ~any(last.kw.theta) /\ any(last.kw.phi) /\ last.r.raised = "none"

C16_WitnessThetaOnly == C16_LayoutBuilt /\ any(last.kw.theta) /\ ~any(last.kw.phi)

\* a target SLL was given (a number that is not zero) / a window was named
C17_SLLGiven == Len(obj.SLL) > 0 /\ obj.SLL[1] # 0

C17_WindowNamed == obj.window \notin {"None", ""}

\* the taper I of n amplitudes is the one the object's window and SLL select
C17_Selected(I, n) ==
    /\ I.M = n
    /\ (~C17_WindowNamed /\ ~C17_SLLGiven) => I.of = "np.ones"
    /\ (C17_WindowNamed /\ ~C17_SLLGiven) => I.of = obj.window
    /\ (C17_SLLGiven /\ obj.SLL[1] < 50) =>
          I.of = "taylor" /\ I.nbar = 5 /\ I.sll = obj.SLL[1]
    /\ (C17_SLLGiven /\ obj.SLL[1] >= 50) =>
          I.of = "chebwin" /\ I.sll = obj.SLL[1]

LinearExcitedState == obj.cls = "LinearArray" /\ obj.I # NoValue

RectExcitedState == obj.cls = "PlanarArray" /\ obj.shape = "rect" /\ obj.Irow # NoValue

\* C17: once calc_AF has run on a linear or a rectangular planar array, the
\* amplitudes are ones when neither window nor SLL is given, the named
\* window when only a window is given, and with an SLL given a Taylor taper
\* with nbar = 5 for SLL < 50 and a Chebyshev taper for SLL >= 50, whatever
\* the window; the array factor is summed with these amplitudes.
C17_TaperSelection ==
    /\ LinearExcitedState =>
          /\ C17_Selected(obj.I, obj.num_elem)
          /\ obj.AF # NoValue => obj.AF.I = obj.I
    /\ RectExcitedState =>
          /\ C17_Selected(obj.Irow, obj.num_elem[1])
          /\ C17_Selected(obj.Icol, obj.num_elem[2])
          /\ obj.AF # NoValue => obj.AF.I = <<obj.Irow, obj.Icol>>

\* a window and an SLL below 50 both given: the Taylor taper is used
C17_Witness ==
    /\ LinearExcitedState /\ obj.AF # NoValue
    /\ C17_WindowNamed /\ C17_SLLGiven /\ obj.SLL[1] < 50 /\ obj.I.of = "taylor"

C17_WitnessRectChebyshev ==
    /\ RectExcitedState /\ obj.AF # NoValue /\ obj.num_elem = <<2, 3>>
    /\ C17_WindowNamed /\ C17_SLLGiven /\ obj.Irow.of = "chebwin" /\ obj.Icol.M = 3

C17_WitnessWindowOnly ==
    LinearExcitedState /\ C17_WindowNamed /\ ~C17_SLLGiven /\ obj.I.of = "hamming"

C17_WitnessUniform ==
    RectExcitedState /\ ~C17_WindowNamed /\ ~C17_SLLGiven /\ obj.Icol.of = "np.ones"

\* calc_AF has taken the general summation path on a tri, circ or other layout
NonRectExcitedState ==
    obj.cls = "PlanarArray" /\ obj.shape \in {"tri", "circ", "other"} /\ obj.I # NoValue

\* C18: on a tri, circ or other layout calc_AF uses one amplitude per element
\* and these follow the requested taper: they are uniform ones only when
\* neither a window nor an SLL is given.
C18_NonRectFollowsTaper ==
    NonRectExcitedState =>
        /\ obj.I.M = Len(obj.X)
        /\ obj.AF # NoValue => obj.AF.I = <<obj.I>>
        /\ (obj.I.of = "np.ones") <=> (~C17_WindowNamed /\ ~C17_SLLGiven)

\* what the general path does: one amplitude per element, always ones
C18_AlwaysUniform ==
    NonRectExcitedState =>
        /\ obj.I = np_ones(Len(obj.X))
        /\ obj.AF # NoValue => obj.AF.I = <<obj.I>>

C18_WitnessTapered ==
    NonRectExcitedState /\ obj.AF # NoValue /\ (C17_WindowNamed \/ C17_SLLGiven)

\* calc_AF has just returned / is read in this step
CalcAFReturned == last.op = "calc_AF" /\ last.r.raised = "none"

\* C19: calc_AF read again right after calc_AF returned, no parameter
\* changed in between, returns the same AF and leaves the whole object
\* (angle grids, positions, amplitudes, phases, AF) with the same values.
C19_SecondReadSame ==
    [][(CalcAFReturned /\ last'.op = "calc_AF")
          => /\ last'.r.raised = "none"
             /\ last'.r.o.AF = obj.AF
             /\ obj' = obj]_vars

\* a second read of calc_AF on a tapered array of several elements whose
\* grid was derived by the first read
C19_Witness ==
    /\ CalcAFReturned /\ last.o.AF # NoValue /\ last.o.AF = obj.AF
    /\ obj.cls = "LinearArray" /\ Len(obj.X) > 1 /\ last.o.X_ndim = 2
    /\ obj.theta.num = 181 /\ C17_SLLGiven

C19_WitnessPlanar ==
    /\ CalcAFReturned /\ last.o.AF # NoValue /\ last.o.AF = obj.AF
    /\ obj.cls = "PlanarArray" /\ obj.shape = "rect" /\ C17_WindowNamed

\* a LinearArray whose AF has been computed
LinearAFStored == obj.cls = "LinearArray" /\ obj.AF # NoValue

\* C20: whatever calc_AF, calc_envelope and calc_peak_sll_hpbw calls were
\* made, the stored AF of a LinearArray is the array factor for the object's
\* current scan_angle and grid, and so are the pattern parameters derived
\* from it; after calc_envelope returns, scan_angle is its previous value.
C20_StoredAFIsCurrent ==
    /\ LinearAFStored =>
          /\ obj.AF.scan_angle = obj.scan_angle
          /\ obj.AF.theta = obj.theta
    /\ (LinearAFStored /\ last.op = "calc_peak_sll_hpbw") =>
          obj.pattern_params.AF.scan_angle = obj.scan_angle
    /\ (obj.cls = "LinearArray" /\ last.op = "calc_envelope" /\ last.r.raised = "none") =>
          obj.scan_angle = last.o.scan_angle

\* the parts of it that hold: calc_envelope puts scan_angle back, and the
\* stored AF is always one over the current grid with the current amplitudes
C20_ScanAngleRestored ==
    (obj.cls = "LinearArray" /\ last.op = "calc_envelope" /\ last.r.raised = "none") =>
        obj.scan_angle = last.o.scan_angle

C20_StoredAFOnCurrentGrid ==
    LinearAFStored => obj.AF.theta = obj.theta /\ obj.AF.I = obj.I

\* calc_envelope returned on an array scanned to 30 degrees; the stored AF is
\* the one of the sweep's last angle
C20_WitnessEnvelope ==
    /\ LinearAFStored /\ last.op = "calc_envelope" /\ last.r.raised = "none"
    /\ obj.scan_angle = Deg(30) /\ obj.AF.scan_angle = Deg(45)

C20_WitnessEnvelopeRaised ==
    obj.cls = "LinearArray" /\ last.op = "calc_envelope" /\ last.r.raised = "ValueError"

(***************************************************************************)
(* app.py: the array cache and the analyze handler, served by the threads  *)
(* of the Flask server.  obj is the process: array_cache (an OrderedDict,  *)
(* the sequence of its items, oldest first), the array objects alive (heap, *)
(* each by the set of attributes it still has) and the position of each    *)
(* request thread in analyze_linear_array.  last also carries `used`, the  *)
(* keys of the cache in the order of their last use (an insertion or a     *)
(* cache hit), which the program does not keep.                            *)
(***************************************************************************)
ARRAY_CACHE_MAX_SIZE == 2

MaxThreads == 2

MaxKeys == 3

\* the attributes of a LinearArray after calc_AF, and those lines 277-290 delete
ComputedAttrs == {"X", "AF", "theta", "I", "P"}

DeletedAttrs == {"X", "Y", "AF", "theta", "phi", "I", "P"}

\* the attributes lines 573-596 read
ResponseAttrs == {"AF", "theta", "P", "I"}

CacheKeys(array_cache) == {array_cache[i].key : i \in 1..Len(array_cache)}

Item(key, arr) == [arr |-> arr, key |-> key]

RECURSIVE Without(_, _)
Without(keys, key) ==
    IF Len(keys) = 0 THEN << >>
    ELSE IF Head(keys).key = key THEN Without(Tail(keys), key)
    ELSE <<Head(keys)>> \o Without(Tail(keys), key)

\* OrderedDict.__getitem__
getitem(array_cache, key) ==
    (CHOOSE e \in {array_cache[i] : i \in 1..Len(array_cache)} : e.key = key).arr

\* OrderedDict.move_to_end(key)
move_to_end(array_cache, key) ==
    Without(array_cache, key) \o <<Item(key, getitem(array_cache, key))>>

\* OrderedDict.__setitem__: a present key keeps its place, a new one goes last
setitem(array_cache, key, arr) ==
    IF key \in CacheKeys(array_cache)
    THEN [i \in 1..Len(array_cache) |->
             IF array_cache[i].key = key THEN Item(key, arr) ELSE array_cache[i]]
    ELSE array_cache \o <<Item(key, arr)>>

\* lines 244-257
Inserted(array_cache, key, arr) ==
    setitem(IF key \in CacheKeys(array_cache) THEN move_to_end(array_cache, key)
            ELSE array_cache,
            key, arr)

\* objects no name refers to any more are gone
Referenced(array_cache, req) ==
    {array_cache[i].arr : i \in 1..Len(array_cache)}
        \cup {req[t].arr : t \in 1..Len(req)}

Collected(app) ==
    [app EXCEPT !.heap = [id \in DOMAIN app.heap |->
                             IF id \in Referenced(app.array_cache, app.req)
                             THEN app.heap[id] ELSE {}]]

\* lines 242-310 with the eviction of lines 260-300 left out
cache_array_unbounded(app, key, arr) ==
    [app EXCEPT !.array_cache = Inserted(app.array_cache, key, arr)]

\* lines 242-310: insert, then if the cache exceeds its size pop the first
\* item and delete the evicted object's arrays
cache_array(app, key, arr) ==
    IF Len(Inserted(app.array_cache, key, arr)) > ARRAY_CACHE_MAX_SIZE
    THEN [app EXCEPT
            !.array_cache = Tail(Inserted(app.array_cache, key, arr)),
            !.heap[Head(Inserted(app.array_cache, key, arr)).arr] = @ \ DeletedAttrs]
    ELSE [app EXCEPT !.array_cache = Inserted(app.array_cache, key, arr)]

\* lines 318-349: the arrays of every cached object are deleted
cleanup_array_objects(app) ==
    [app EXCEPT !.heap = [id \in DOMAIN app.heap |->
                             IF id \in {app.array_cache[i].arr : i \in 1..Len(app.array_cache)}
                             THEN app.heap[id] \ DeletedAttrs ELSE app.heap[id]]]

\* at most ARRAY_CACHE_MAX_SIZE cached objects and one per thread are alive
HeapIds == 1..(ARRAY_CACHE_MAX_SIZE + MaxThreads)

Idle == [arr |-> 0, key |-> 0, pc |-> "idle"]

FreeId(app) ==
    CHOOSE id \in HeapIds :
        /\ id \notin Referenced(app.array_cache, app.req)
        /\ \A other \in HeapIds :
              other \notin Referenced(app.array_cache, app.req) => id <= other

\* what a step did: the call, its thread and key, the exception it raised,
\* the key and object it evicted, the cache as it found it, and `used`
Event(op, t, key, raised, evicted, arr, used) ==
    [arr |-> arr, array_cache |-> obj.array_cache, evicted |-> evicted, key |-> key,
     op |-> op, raised |-> raised, t |-> t, used |-> used]

\* the event of cache_array(key, arr)
CacheArrayEvent(t, key, arr) ==
    IF Len(Inserted(obj.array_cache, key, arr)) > ARRAY_CACHE_MAX_SIZE
    THEN Event("cache_array", t, key, "none",
               <<Head(Inserted(obj.array_cache, key, arr)).key>>,
               Head(Inserted(obj.array_cache, key, arr)).arr,
               Without(Without(last.used, key), Head(Inserted(obj.array_cache, key, arr)).key)
                   \o <<Item(key, arr)>>)
    ELSE Event("cache_array", t, key, "none", << >>, 0,
               Without(last.used, key) \o <<Item(key, arr)>>)

\* lines 545 and 553-563: the key is looked up; on a miss the array is
\* constructed and calc_AF read
Lookup(t) ==
    /\ obj.cls = "app" /\ obj.req[t].pc = "idle"
    /\ \E key \in 1..MaxKeys :
          /\ obj' = IF key \in CacheKeys(obj.array_cache)
                    THEN [obj EXCEPT !.req[t] = [arr |-> 0, key |-> key, pc |-> "found"]]
                    ELSE [obj EXCEPT !.heap[FreeId(obj)] = ComputedAttrs,
                                     !.req[t] = [arr |-> FreeId(obj), key |-> key,
                                                 pc |-> "built"]]
          /\ last' = Event("lookup", t, key, "none", << >>, 0, last.used)

\* line 547: arr = array_cache[array_key]
Fetch(t) ==
    /\ obj.cls = "app" /\ obj.req[t].pc = "found"
    /\ IF obj.req[t].key \in CacheKeys(obj.array_cache)
       THEN /\ obj' = [obj EXCEPT !.req[t].arr = getitem(obj.array_cache, obj.req[t].key),
                                  !.req[t].pc = "ready"]
            /\ last' = Event("hit", t, obj.req[t].key, "none", << >>, 0,
                             Without(last.used, obj.req[t].key)
                                 \o <<Item(obj.req[t].key,
                                           getitem(obj.array_cache, obj.req[t].key))>>)
       ELSE /\ obj' = [obj EXCEPT !.req[t] = Idle]
            /\ last' = Event("hit", t, obj.req[t].key, "KeyError", << >>, 0, last.used)

\* line 569: cache_array(array_key, arr)
CacheArray(t) ==
    /\ obj.cls = "app" /\ obj.req[t].pc = "built"
    /\ obj' = Collected([cache_array(obj, obj.req[t].key, obj.req[t].arr)
                            EXCEPT !.req[t].pc = "ready"])
    /\ last' = CacheArrayEvent(t, obj.req[t].key, obj.req[t].arr)

\* lines 573-605: calc_peak_sll_hpbw and the response read arr.AF, arr.theta,
\* arr.P and arr.I
Respond(t) ==
    /\ obj.cls = "app" /\ obj.req[t].pc = "ready"
    /\ obj' = Collected([obj EXCEPT !.req[t] = Idle])
    /\ last' = Event("respond", t, obj.req[t].key,
                     IF ResponseAttrs \subseteq obj.heap[obj.req[t].arr]
                     THEN "none" ELSE "AttributeError",
                     << >>, obj.req[t].arr, last.used)

Cleanup ==
    /\ obj.cls = "app"
    /\ obj' = cleanup_array_objects(obj)
    /\ last' = Event("cleanup_array_objects", 0, 0, "none", << >>, 0, last.used)

InitCache ==
    /\ obj = [array_cache |-> << >>, cls |-> "app", heap |-> [id \in HeapIds |-> {}],
              req |-> [t \in 1..MaxThreads |-> Idle]]
    /\ last = Event("none", 0, 0, "none", << >>, 0, << >>)

NextCache ==
    \/ \E t \in 1..MaxThreads : Lookup(t) \/ Fetch(t) \/ CacheArray(t) \/ Respond(t)
    \/ Cleanup

SpecCache == InitCache /\ [][NextCache]_vars

\* the cache never holds a key twice
CacheKeysDistinct == Cardinality(CacheKeys(obj.array_cache)) = Len(obj.array_cache)

\* cache_array called on its own, with any key and a new array object
CallCacheArray ==
    /\ obj.cls = "app"
    /\ \E key \in 1..MaxKeys :
          /\ obj' = Collected(cache_array([obj EXCEPT !.heap[FreeId(obj)] = ComputedAttrs],
                                          key, FreeId(obj)))
          /\ last' = CacheArrayEvent(0, key, FreeId(obj))

SpecCacheArray == InitCache /\ [][CallCacheArray]_vars

CacheArrayReturned == obj.cls = "app" /\ last.op = "cache_array"

\* C23: when cache_array returns the cache holds at most
\* ARRAY_CACHE_MAX_SIZE entries, whatever keys were passed; a call evicts at
\* most one entry, and a call with a key already present leaves the number
\* of entries as it was (last.array_cache is the cache as the call found it).
C23_SizeBounded ==
    CacheArrayReturned =>
        /\ Len(obj.array_cache) <= ARRAY_CACHE_MAX_SIZE
        /\ Len(last.evicted) <= 1
        /\ Len(obj.array_cache) >= Len(last.array_cache) - Len(last.evicted)
        /\ Cardinality(CacheKeys(last.array_cache) \ CacheKeys(obj.array_cache)) <= 1
        /\ last.key \in CacheKeys(last.array_cache) =>
              /\ Len(obj.array_cache) = Len(last.array_cache)
              /\ last.evicted = << >>

\* a call with a key already present in a full cache
C23_Witness ==
    /\ CacheArrayReturned /\ last.key \in CacheKeys(last.array_cache)
    /\ Len(last.array_cache) = ARRAY_CACHE_MAX_SIZE /\ Len(obj.array_cache) = ARRAY_CACHE_MAX_SIZE

C23_WitnessEvicts ==
    CacheArrayReturned /\ Len(last.evicted) = 1 /\ Len(obj.array_cache) = ARRAY_CACHE_MAX_SIZE

\* C22: the cache is LRU: an insertion that makes the cache exceed its
\* capacity evicts the entry least recently used, an insertion and a cache
\* hit both counting as a use.
C22_EvictsLeastRecentlyUsed ==
    [][(obj.cls = "app" /\ last'.op = "cache_array" /\ last'.evicted # << >>)
          => last'.evicted[1] = Head(Without(last.used, last'.key)).key]_vars

\* what the cache does: it evicts the entry inserted first, hits or not
C22_EvictsFirstInserted ==
    (obj.cls = "app" /\ last.op = "cache_array" /\ last.evicted # << >>)
        => last.evicted[1] = Head(last.array_cache).key

\* an eviction after a hit on the oldest entry
C22_WitnessHitThenEvicted ==
    /\ obj.cls = "app" /\ last.op = "cache_array" /\ last.evicted # << >>
    /\ last.evicted[1] # Head(last.array_cache).key

\* the threads that hold an array object and have not built their response
Serving == {t \in 1..MaxThreads : obj.req[t].pc = "ready"}

\* C24: with requests served concurrently, an eviction never deletes the
\* arrays of an object that a request obtained from the cache, or has just
\* inserted, and has not finished with.
C24_EvictionSparesHeldObjects ==
    (obj.cls = "app" /\ last.op = "cache_array" /\ last.evicted # << >>)
        => \A t \in Serving : obj.req[t].arr # last.arr

\* the request then fails: its response reads attributes that are gone
C24_WitnessResponseFails ==
    /\ obj.cls = "app" /\ last.op = "respond" /\ last.raised = "AttributeError"
    /\ last.arr \notin {obj.array_cache[i].arr : i \in 1..Len(obj.array_cache)}

\* C28: whatever cache operations were made (cache_array insertions and
\* evictions, cleanup_array_objects), every object still held in
\* array_cache has its computed AF and grid attributes.
C28_CachedObjectsIntact ==
    obj.cls = "app" =>
        \A i \in 1..Len(obj.array_cache) :
            ComputedAttrs \subseteq obj.heap[obj.array_cache[i].arr]

\* a cache hit after cleanup_array_objects: the response fails on an object
\* the cache still holds
C28_WitnessHitFails ==
    /\ obj.cls = "app" /\ last.op = "respond" /\ last.raised = "AttributeError"
    /\ last.arr \in {obj.array_cache[i].arr : i \in 1..Len(obj.array_cache)}

\* without cleanup_array_objects the cached objects stay intact
C28_IntactUnlessCleanup ==
    [][(obj.cls = "app" /\ last'.op # "cleanup_array_objects"
          /\ \A i \in 1..Len(obj.array_cache) :
                ComputedAttrs \subseteq obj.heap[obj.array_cache[i].arr])
        => \A i \in 1..Len(obj'.array_cache) :
                ComputedAttrs \subseteq obj'.heap[obj'.array_cache[i].arr]]_vars

(***************************************************************************)
(* C27: in calc_peak_sll_hpbw, for every gain curve, idx_peak is found in  *)
(* the crossing list and has a crossing on each side, so that              *)
(* idx_null_L < idx_peak < idx_null_R; also for a flat-topped peak and for *)
(* a peak at the first or the last sample.  In the code a flat-topped peak *)
(* is not in cs_idx (IndexError at 129/240), a peak at the last sample has *)
(* no cs_idx[idx_+1] (IndexError at 130/241), and a peak at the first      *)
(* sample takes cs_idx[-1], the LAST crossing, as idx_null_L.              *)
(***************************************************************************)
C27_Bracketed(m) ==
    /\ m.raised = "none"
    /\ m.idx_null_L < m.idx_peak
    /\ m.idx_peak < m.idx_null_R

C27_PeakBracketed == Called => C27_Bracketed(MainLobe(Analysed.G))

\* what does hold: an interior strict peak is bracketed
C27_InteriorPeakBracketed ==
    (Called /\ InteriorStrictPeak(Analysed.G, np_argmax(Analysed.G)))
        => C27_Bracketed(MainLobe(Analysed.G))

\* a peak at the first sample: the call goes on with idx_null_L right of it
C27_WitnessFirstSample ==
    /\ Called
    /\ np_argmax(Analysed.G) = 0
    /\ MainLobe(Analysed.G).raised = "none"
    /\ MainLobe(Analysed.G).idx_null_L > 0

(***************************************************************************)
(* The two analyze routes of backend/app.py: validation, the engine calls  *)
(* and the response.  A request holds the JSON values after int()/float()  *)
(* (spacings in units of 0.01 wavelength as in the constructors above);    *)
(* the remaining keys keep their defaults.  The engine is called as on a   *)
(* cache miss: a cached object was built by the same calls of an earlier   *)
(* request.  The gain curve calc_peak_sll_hpbw analyses is db20(arr.AF),   *)
(* which the model does not evaluate: it is drawn from the curves of the   *)
(* peak-extraction model.  An exception that leaves the handler is the     *)
(* server's 500 response.                                                  *)
(***************************************************************************)
\* config.py: MAX_ELEMENTS = 1000, MAX_SPACING = 10.0 wavelengths
MAX_ELEMENTS == 1000

MAX_SPACING == 1000

create_error_response(message) ==
    [at |-> message, body |-> NoValue, raised |-> "none", status |-> 400]

Unhandled(r) == [at |-> r.at, body |-> NoValue, raised |-> r.raised, status |-> 500]

jsonify(response) == [at |-> "", body |-> response, raised |-> "none", status |-> 200]

\* app.py 351-385: the shape of the lists (the values are numbers already)
validate_array_parameters(array_type, num_elem, element_spacing) ==
    IF array_type \in {"rect", "tri"}
    THEN Len(num_elem) = 2 /\ Len(element_spacing) = 2
    ELSE IF array_type = "circ"
    THEN Len(num_elem) >= 1 /\ Len(element_spacing) = Len(num_elem)
    ELSE FALSE

\* app.py 676
total_num_elem(data) ==
    IF data.array_type \in {"rect", "tri"} THEN data.num_elem[1] * data.num_elem[2]
    ELSE np_sum(data.num_elem)

\* app.py 618-699: the message of the 400 response, "" for a request that
\* passes
PlanarValidation(data) ==
    IF data.array_type \notin {"rect", "tri", "circ"}
    THEN "array_type must be rect, tri, or circ"
    ELSE IF ~validate_array_parameters(data.array_type, data.num_elem, data.element_spacing)
    THEN "validation_error"
    ELSE IF total_num_elem(data) <= 0 \/ total_num_elem(data) > MAX_ELEMENTS
    THEN "Total number of elements exceeds the maximum limit"
    ELSE IF data.array_type \in {"rect", "tri"}
            /\ (data.num_elem[1] > 500 \/ data.num_elem[2] > 500)
    THEN "Individual row and column element counts cannot exceed 500"
    ELSE IF data.array_type \in {"rect", "tri"}
            /\ \E i \in 1..2 : data.element_spacing[i] < 10
                               \/ data.element_spacing[i] > MAX_SPACING
    THEN "Element spacing values must be between 0.1 and MAX_SPACING"
    ELSE ""

\* app.py 505-520
LinearValidation(data) ==
    IF data.num_elem <= 0 \/ data.num_elem > MAX_ELEMENTS
    THEN "num_elem must be between 1 and MAX_ELEMENTS"
    ELSE IF data.element_spacing < 10 \/ data.element_spacing > MAX_SPACING
    THEN "element_spacing must be between 0.1 and MAX_SPACING"
    ELSE ""

\* app.py 387-408: base_response, built before plot_type selects the plot;
\* the fields it reads of the tuple it is given
BaseResponseReads == {"Gain", "Gain_3D", "Peak_Angle", "SLL", "HPBW"}

create_plot_response(plot_type, pattern_params, pattern_params_3d) ==
    LET t == IF plot_type = "pattern_cut" THEN pattern_params ELSE pattern_params_3d
    IN  IF ~(BaseResponseReads \subseteq DOMAIN t)
        THEN Raise("AttributeError",
                   IF plot_type = "pattern_cut" THEN "pattern_params.Gain_3D"
                   ELSE "pattern_params_3d.Gain_3D")
        ELSE [gain |-> t.Gain, gain_3d |-> t.Gain_3D, hpbw |-> t.HPBW,
              peak_angle |-> t.Peak_Angle, raised |-> "none", sll |-> t.SLL]

\* app.py 725-759: the engine calls and the response for a validated request
PlanarResponse(data, arr, af, p, p3) ==
    IF arr.raised # "none" THEN Unhandled(arr)
    ELSE IF af.raised # "none" THEN Unhandled(af)
    ELSE IF p.raised # "none" THEN Unhandled(p)
    ELSE IF p3.raised # "none" THEN Unhandled(p3)
    ELSE IF create_plot_response(data.plot_type, p.pattern_params,
                                 p3.pattern_params).raised # "none"
    THEN Unhandled(create_plot_response(data.plot_type, p.pattern_params,
                                        p3.pattern_params))
    ELSE jsonify(create_plot_response(data.plot_type, p.pattern_params,
                                      p3.pattern_params))

PlanarEngine(data, arr, surface) ==
    PlanarResponse(data, arr,
                   IF arr.raised = "none" THEN PlanarArray_calc_AF(arr) ELSE arr,
                   PlanarArray_calc_peak_sll_hpbw(surface, data.cut_angle),
                   PlanarArray_calc_peak_sll_hpbw(surface, 0))

\* app.py 609-761; scan_angle is the default [0, 0]
analyze_planar_array(data, surface) ==
    IF PlanarValidation(data) # "" THEN create_error_response(PlanarValidation(data))
    ELSE PlanarEngine(data,
                      PlanarArray_new(<<data.array_type, data.num_elem,
                                        data.element_spacing>>, PlanarDefaults),
                      surface)

\* app.py 553-600
LinearResponse(arr, af, p) ==
    IF arr.raised # "none" THEN Unhandled(arr)
    ELSE IF af.raised # "none" THEN Unhandled(af)
    ELSE IF p.raised # "none" THEN Unhandled(p)
    ELSE jsonify([gain |-> p.pattern_params.Gain, hpbw |-> p.pattern_params.HPBW,
                  peak_angle |-> p.pattern_params.Peak_Angle,
                  sll |-> p.pattern_params.SLL])

LinearEngine(arr, surface) ==
    LinearResponse(arr,
                   IF arr.raised = "none" THEN LinearArray_calc_AF(arr) ELSE arr,
                   LinearArray_calc_peak_sll_hpbw(surface.G, surface.theta))

\* app.py 489-605
analyze_linear_array(data, surface) ==
    IF LinearValidation(data) # "" THEN create_error_response(LinearValidation(data))
    ELSE LinearEngine(LinearArray_new(data.num_elem, Scalar(data.element_spacing),
                                      LinearDefaults),
                      surface)

\* requests: counts below, at and above the limits, lists of one to three
\* entries, spacings below 0.1, inside and above MAX_SPACING
PlanarRequests ==
    {[array_type |-> array_type, cls |-> "request", cut_angle |-> cut_angle,
      element_spacing |-> element_spacing, num_elem |-> num_elem,
      plot_type |-> plot_type, route |-> "/api/planar-array/analyze"] :
        array_type \in {"rect", "tri", "circ", "hex"},
        cut_angle \in PeakCuts,
        element_spacing \in {<<50, 50>>, <<5, 50>>, <<50, 1200>>, <<50>>},
        num_elem \in SeqsUpTo({-3, -2, 0, 2, 501, 1001}, 1, 2) \cup {<<2, 2, 2>>},
        plot_type \in {"pattern_cut", "polar3d", "grid"}}

LinearRequests ==
    {[cls |-> "request", element_spacing |-> element_spacing,
      num_elem |-> num_elem, route |-> "/api/linear-array/analyze"] :
        element_spacing \in {0, 5, 10, 50, 1000, 1001},
        num_elem \in {-1, 0, 1, MaxElem, 1001}}

PlanarSurfaces ==
    {PlanarObject(r0, t) : r0 \in [1..3 -> PlanarGainVals], t \in [1..2 -> PlanarGainVals]}

LinearSurfaces == {LinearObject(3, g) : g \in [1..3 -> GainVals]}

AnalyzePlanar ==
    /\ obj.cls = "request"
    /\ obj.route = "/api/planar-array/analyze"
    /\ \E surface \in PlanarSurfaces :
          last' = [data |-> obj, op |-> "analyze_planar_array",
                   r |-> analyze_planar_array(obj, surface)]
    /\ UNCHANGED obj

AnalyzeLinear ==
    /\ obj.cls = "request"
    /\ obj.route = "/api/linear-array/analyze"
    /\ \E surface \in LinearSurfaces :
          last' = [data |-> obj, op |-> "analyze_linear_array",
                   r |-> analyze_linear_array(obj, surface)]
    /\ UNCHANGED obj

InitHandler ==
    /\ obj \in PlanarRequests \cup LinearRequests
    /\ last = NoCall

NextHandler == AnalyzePlanar \/ AnalyzeLinear

SpecHandler == InitHandler /\ [][NextHandler]_vars

Validated == last.op \in {"analyze_planar_array", "analyze_linear_array"} /\ last.r.status # 400

(***************************************************************************)
(* C25: every planar analyze request that passes validation, for every     *)
(* plot_type, completes with a response whose gain, peak_angle, sll and    *)
(* hpbw are those of the tuple calc_peak_sll_hpbw returned; building the   *)
(* response never fails on a field the tuple does not have.  The code      *)
(* reads Gain_3D of the tuple (app.py 394, 404), which has the fields      *)
(* Gain, Peak_Angle, SLL and HPBW only (planar_array.py 253).              *)
(***************************************************************************)
C25_PlanarResponseBuilt ==
    (Validated /\ last.op = "analyze_planar_array")
        => last.r.raised # "AttributeError"

\* no validated planar request is answered
C25_NoPlanarResponse ==
    last.op = "analyze_planar_array" => last.r.status # 200

C25_WitnessAttributeError ==
    /\ last.op = "analyze_planar_array"
    /\ last.data.plot_type = "grid"
    /\ last.r.raised = "AttributeError"

(***************************************************************************)
(* C26: a request that passes validation reaches the constructor with      *)
(* num_elem >= 1 and spacing > 0 (linear) and with rows > 0 and cols > 0   *)
(* each (planar), so the constructor's assertions never fire.  The planar  *)
(* route tests the product rows * cols only (app.py 676-678): two negative *)
(* counts pass and the assertion of planar_array.py 53 fires.              *)
(***************************************************************************)
C26_ConstructorAccepts == Validated => last.r.raised # "AssertionError"

\* the linear half holds
C26_LinearConstructorAccepts ==
    (Validated /\ last.op = "analyze_linear_array")
        => /\ last.data.num_elem >= 1
           /\ last.data.element_spacing > 0
           /\ last.r.raised # "AssertionError"

C26_WitnessNegativeCounts ==
    /\ last.op = "analyze_planar_array"
    /\ last.data.num_elem = <<-3, -2>>
    /\ last.r.status = 500
    /\ last.r.raised = "AssertionError"

(***************************************************************************)
(* LinearArray.from_element_position (linear_array.py 65-67): the          *)
(* constructor called with len(X) and np.diff(sorted(X)), an ndarray,      *)
(* which takes the branch of lines 52-54.  X is in units of 0.01           *)
(* wavelength, in the order the caller gives.                              *)
(***************************************************************************)
\* the list as given, not sorted
sorted_none(X) == X

RECURSIVE Insert(_, _)
Insert(s, x) ==
    IF Len(s) = 0 THEN <<x>>
    ELSE IF x < Head(s) THEN <<x>> \o s
    ELSE <<Head(s)>> \o Insert(Tail(s), x)

RECURSIVE SortedFrom(_, _)
SortedFrom(done, rest) ==
    IF Len(rest) = 0 THEN done ELSE SortedFrom(Insert(done, Head(rest)), Tail(rest))

\* Python's sorted(X)
sorted(X) == SortedFrom(<< >>, X)

LinearArray_from_element_position(X, kw) ==
    LinearArray_new(Len(X), [type |-> "ndarray", v |-> np_diff(sorted(X))], kw)

PositionVals == {-50, 0, 50, 125}

FromElementPosition ==
    /\ obj = NoObject
    /\ \E X \in SeqsUpTo(PositionVals, 1, MaxElem) :
          /\ obj' = Produced(LinearArray_from_element_position(X, LinearDefaults))
          /\ last' = [X |-> X, cls |-> "LinearArray", op |-> "from_element_position",
                      r |-> LinearArray_from_element_position(X, LinearDefaults)]

SpecPosition == InitGeom /\ [][FromElementPosition]_vars

(***************************************************************************)
(* C30: for every non-empty X, in any order, from_element_position builds  *)
(* an array with num_elem = len(X) whose stored positions are sorted(X)    *)
(* minus mean(X): they are in ascending order and each position            *)
(* x - mean(X) occurs as often as x occurs in X.                           *)
(***************************************************************************)
C30_Mean(X) == np_sum(Scaled(X, PosUnit)) \div Len(X)

C30_Count(s, v) == Cardinality({i \in 1..Len(s) : s[i] = v})

C30_RoundTrip ==
    last.op = "from_element_position" =>
        /\ last.r.raised = "none"
        /\ last.r.num_elem = Len(last.X)
        /\ Len(last.r.X) = Len(last.X)
        /\ obj.X = last.r.X
        /\ \A i \in 1..(Len(last.r.X) - 1) : last.r.X[i] <= last.r.X[i + 1]
        /\ \A i \in 1..Len(last.X) :
              C30_Count(last.r.X, PosUnit * last.X[i] - C30_Mean(last.X))
                  = C30_Count(last.X, last.X[i])

\* positions given out of order, one of them twice
C30_Witness ==
    /\ last.op = "from_element_position"
    /\ last.X = <<50, -50, 125, 50>>
    /\ last.r.X = <<-4500, 300, 300, 3900>>

\* a single position
C30_WitnessOne ==
    /\ last.op = "from_element_position"
    /\ Len(last.X) = 1
    /\ last.r.X = <<0>>

(***************************************************************************)
(* C29: calc_envelope(theta1, theta2, delta_theta) sweeps the N+1 scan     *)
(* angles of scan_range and stores as the last envelope column the         *)
(* pointwise maximum over the patterns of all N+1 scan angles, with the    *)
(* pattern of every swept angle, theta2 included, kept in the other        *)
(* columns.  The array has N+1 columns in all: line 258 writes the maximum *)
(* of the first N over the column of theta2.                               *)
(***************************************************************************)
EnvelopeReturned ==
    obj.cls = "LinearArray" /\ last.op = "calc_envelope" /\ last.r.raised = "none"

\* the scan angles whose patterns the columns first..last hold
C29_Kept(e, first, last_) ==
    {e.rows[k].AF.scan_angle : k \in {j \in first..last_ : e.rows[j].of = "db20"}}

\* the scan angles whose patterns the maximum in the last column is over
C29_Maximised(e) ==
    IF e.rows[e.scan_range.num].of # "np.max" THEN {}
    ELSE {e.rows[e.scan_range.num].rows[k].AF.scan_angle :
             k \in 1..Len(e.rows[e.scan_range.num].rows)}

C29_Swept(e) == {GridAt(e.scan_range, idx) : idx \in 0..(e.scan_range.num - 1)}

C29_EnvelopeOverAllAngles ==
    EnvelopeReturned =>
        /\ C29_Maximised(obj.envelopes) = C29_Swept(obj.envelopes)
        /\ C29_Kept(obj.envelopes, 1, obj.envelopes.scan_range.num - 1)
               = C29_Swept(obj.envelopes)

\* what the code keeps: the patterns of the first N angles, their maximum in
\* the last column, and no pattern of theta2
C29_EnvelopeOverFirstAngles ==
    EnvelopeReturned =>
        /\ Len(obj.envelopes.rows) = obj.envelopes.scan_range.num
        /\ C29_Maximised(obj.envelopes)
               = C29_Swept(obj.envelopes) \ {obj.envelopes.scan_range.stop}
        /\ C29_Kept(obj.envelopes, 1, obj.envelopes.scan_range.num)
               = C29_Swept(obj.envelopes) \ {obj.envelopes.scan_range.stop}

\* the sweep 0, 15, 30 returned: two patterns and their maximum
C29_WitnessSweepOfThree ==
    /\ EnvelopeReturned
    /\ obj.envelopes.scan_range = Grid(0, Deg(30), 3)
    /\ C29_Kept(obj.envelopes, 1, 3) = {0, Deg(15)}
    /\ C29_Maximised(obj.envelopes) = {0, Deg(15)}

(***************************************************************************)
(* The array factor in numbers (linear_array.py 20-25, 101-117), for       *)
(* uniform amplitudes.  The source computes in double precision; the model *)
(* computes in fixed point: sines in units of 1/20000, phases in           *)
(* millidegrees, |AF| in units of 1/1000, decibels in units of 0.00001 dB  *)
(* rounded at the end to the model's step of 0.02 dB.  Every product stays *)
(* below 2^31 for arrays of up to 3.5 wavelengths.                         *)
(***************************************************************************)
\* np.radians of 0..90000 millidegrees, in units of 1/20000 radian
Radians(a) == (a * 349) \div 1000 + (a * 66) \div 1000000

\* sin x on [0, pi/2]: x - x^3/3! + x^5/5! - x^7/7! + x^9/9!
SinPoly(x) ==
    LET y  == (x * x) \div 20000
        t4 == 20000 - y \div 72
        t3 == 20000 - ((y * t4) \div 20000) \div 42
        t2 == 20000 - ((y * t3) \div 20000) \div 20
        t1 == 20000 - ((y * t2) \div 20000) \div 6
    IN  (x * t1) \div 20000

\* np.sin(np.radians(a)) for a in millidegrees, in units of 1/20000
np_sin(a) ==
    LET r == a % 360000
    IN  IF r <= 90000 THEN SinPoly(Radians(r))
        ELSE IF r <= 180000 THEN SinPoly(Radians(180000 - r))
        ELSE IF r <= 270000 THEN -SinPoly(Radians(r - 180000))
        ELSE -SinPoly(Radians(360000 - r))

np_cos(a) == np_sin(a + 90000)

RECURSIVE Log2Floor(_)
Log2Floor(n) == IF n < 2 THEN 0 ELSE 1 + Log2Floor(n \div 2)

\* ln m for m in [1, 2) given in units of 1/32768, in the same units:
\* 2 (z + z^3/3 + z^5/5 + z^7/7 + z^9/9) with z = (m - 1) / (m + 1)
LnMantissa(m) ==
    LET z  == ((m - 32768) * 32768) \div (m + 32768)
        z2 == (z * z) \div 32768
        t4 == 32768 \div 7 + (z2 * (32768 \div 9)) \div 32768
        t3 == 32768 \div 5 + (z2 * t4) \div 32768
        t2 == 32768 \div 3 + (z2 * t3) \div 32768
        t1 == 32768 + (z2 * t2) \div 32768
    IN  (2 * z * t1) \div 32768

\* db10 (lines 20-24) of an integer n >= 1, in units of 0.00001 dB:
\* 10 log10(2) per binary digit plus 10 / ln(10) times ln of the mantissa
db10(n) ==
    LET e == Log2Floor(n)
    IN  301030 * e
        + (LnMantissa(IF e >= 15 THEN n \div 2^(e - 15) ELSE n * 2^(15 - e)) * 13254)
              \div 1000

\* the samples of a grid
ThetaSamples(g) == [i \in 1..g.num |-> GridAt(g, i - 1)]

\* lines 74 and 105-106: the phase, in millidegrees, of the element at x (in
\* units of 0.005 wavelength) for s = sin(theta) - sin(scan_angle):
\* 360 x s degrees
ElementPhase(x, s) == (9 * x * s) \div 100

\* lines 105-106: |sum of exp(j phase)|^2 over the elements, in units of
\* 1/1000000
AFPower(X, s) ==
    LET re == np_sum([k \in 1..Len(X) |-> np_cos(ElementPhase(X[k] \div (PosUnit \div 2), s))])
        im == np_sum([k \in 1..Len(X) |-> np_sin(ElementPhase(X[k] \div (PosUnit \div 2), s))])
    IN  (re \div 20) * (re \div 20) + (im \div 20) * (im \div 20)

AFPowers(o) ==
    [i \in 1..o.AF.theta.num |->
        AFPower(o.X, np_sin(20 * GridAt(o.AF.theta, i - 1)) - np_sin(20 * o.AF.scan_angle))]

\* the sum of line 109 without the weight sin(theta + 90)
AF_int_unweighted(pw, theta) == np_sum([i \in 1..Len(pw) |-> pw[i] \div 100])

\* line 109: np.sum(np.abs(AF)**2 * np.sin(np.radians(theta + 90))), in units
\* of 1/10000
AF_int(pw, theta) ==
    np_sum([i \in 1..Len(pw) |->
               ((pw[i] \div 100) * (np_sin(20 * GridAt(theta, i - 1) + 90000) \div 20))
                   \div 1000])

\* lines 108-110: 10 log10 of 1 / (0.5 * sum * delta_theta), the sum in
\* units of 1/10000 of the powers' unit and delta_theta = dth / 50 degrees in
\* radians: 10 log10(180 / (sum * dth * pi))
Normalisation(pw, theta) ==
    db10(180) - db10(AF_int(pw, theta)) - db10(GridAt(theta, 1) - GridAt(theta, 0))
    - 497150

\* lines 112-115: 20 log10 of cos(theta) and the element gain, for theta in
\* steps of 0.02 degree
ElementPattern(AF, theta_deg) ==
    IF AF.element_pattern
    THEN 2 * (db10(np_cos(20 * theta_deg)) - db10(20000)) + 2000 * AF.element_gain
    ELSE 0

\* a level of -200 dB stands for every lower one (log10 of 0 included)
Level(g) == IF g < -(200 * 100000) THEN -(200 * 100000) ELSE g

\* db20(self.AF) in steps of 0.02 dB
db20_AF(o) ==
    LET pw   == AFPowers(o)
        norm == Normalisation(AFPowers(o), o.AF.theta)
    IN  [i \in 1..o.AF.theta.num |->
            (Level(IF pw[i] <= 0
                      \/ (o.AF.element_pattern
                          /\ np_cos(20 * GridAt(o.AF.theta, i - 1)) <= 0)
                   THEN -(200 * 100000)
                   ELSE db10(pw[i]) + norm
                        + ElementPattern(o.AF, GridAt(o.AF.theta, i - 1)))
             + 1000) \div 2000]

\* lines 119-143 on the object's own AF
LinearArray_peak_of_AF(o) ==
    IF o.AF = NoValue THEN Raise("AttributeError", "self.AF")
    ELSE LinearArray_calc_peak_sll_hpbw(db20_AF(o), ThetaSamples(o.AF.theta))

LinearCalcPeakOfGain ==
    /\ obj.cls = "LinearArray"
    /\ LET r == LinearArray_peak_of_AF(obj)
       IN  /\ last' = [cls |-> "LinearArray", o |-> obj, op |-> "calc_peak_sll_hpbw",
                       r |-> r]
           /\ obj' = IF r.raised = "none"
                     THEN [obj EXCEPT !.pattern_params = r.pattern_params]
                     ELSE obj

\* arrays of 8 to 10 elements at 0.5 to 0.7 wavelength, scanned to 0, 10 or
\* 20 degrees, with and without the element pattern, on the default grid
LinearInitGain ==
    \E num_elem \in {8, 9, 10}, element_spacing \in {50, 60, 70},
       scan_angle \in {0, Deg(10), Deg(20)}, element_pattern \in BOOLEAN :
        LinearNew(num_elem, Scalar(element_spacing),
                  [LinearDefaults EXCEPT !.scan_angle = scan_angle,
                                         !.element_pattern = element_pattern])

NextGain == LinearInitGain \/ LinearCalcAF \/ LinearCalcPeakOfGain

SpecGain == InitGeom /\ [][NextGain]_vars

(***************************************************************************)
(* C21: LinearArray(num_elem=8, element_spacing=0.5, scan_angle=0), then   *)
(* calc_AF and calc_peak_sll_hpbw: Peak_Angle is 0.0 degrees, Gain is      *)
(* 10 log10(8) = 9.0 dBi to within 0.1 dB, SLL and HPBW are finite and     *)
(* positive (not the sentinels 100 and 0), and HPBW lies between 10 and    *)
(* 15 degrees.                                                             *)
(***************************************************************************)
C21_Scenario ==
    /\ last.op = "calc_peak_sll_hpbw" /\ last.cls = "LinearArray"
    /\ last.o.AF # NoValue
    /\ last.o.num_elem = 8 /\ last.o.element_spacing = 50 /\ last.o.scan_angle = 0

C21_EightElementBroadside ==
    C21_Scenario =>
        /\ last.r.raised = "none"
        /\ obj.pattern_params = last.r.pattern_params
        /\ obj.pattern_params.Peak_Angle = 0
        /\ Abs(obj.pattern_params.Gain - DB(9)) <= 5
        /\ obj.pattern_params.SLL > 0 /\ obj.pattern_params.SLL < DB(100)
        /\ obj.pattern_params.HPBW >= Deg(10) /\ obj.pattern_params.HPBW <= Deg(15)

\* the scenario with the default element pattern: 9.04 dBi at 0 degrees,
\* SLL 13.4 dB, HPBW 12 degrees, on the 181-point grid
C21_Witness ==
    /\ C21_Scenario
    /\ last.o.element_pattern
    /\ last.o.theta = Grid(Deg(-90), Deg(90), 181)
    /\ obj.pattern_params = [Gain |-> 452, HPBW |-> Deg(12), Peak_Angle |-> 0,
                             SLL |-> 670]

====
